---- MODULE Spec2Model ----
(***************************************************************************)
(* Reddit Out Loud: the playback sequencer of the content script           *)
(* (src/content/content.ts) and of the PlaybackEngine class                *)
(* (src/playback/playback.ts), driving the Web Speech engine.              *)
(*                                                                         *)
(* The speech engine is an external capability: speak() appends to its     *)
(* utterance queue, the head of the queue is the utterance being spoken,   *)
(* completion and error arrive later as callbacks, and an utterance        *)
(* removed by cancel() may still deliver a late callback.                  *)
(***************************************************************************)
EXTENDS Integers, Naturals, Sequences, FiniteSets, TLC

\* ---------------------------------------------------------------- bounds
\* comment records an extraction pass can produce
MaxComments == 2
\* utterances queued, late callbacks and timers outstanding at one time
MaxOutstanding == 2
\* voices installed for the locale
MaxVoices == 3
\* largest item index a voice is asked for
MaxIndex == 4
\* comment nodes the document can hold
MaxNodes == 2
\* characters of an author name drawn from the alphabet
MaxNameLen == 4
\* comments in an array handed to flattenComments
MaxFlatten == 4
\* extractComments requests sent to one page
MaxRequests == 2

\* ------------------------------------------------------------- variables
VARIABLES
  driver,            \* which sequencer owns the page's speech engine
  cancelKeepsPaused, \* engine kind: cancel() leaves synthesis.paused as it is
  synthQueue,        \* synthesis: utterances submitted, head is being spoken
  synthPaused,       \* synthesis.paused
  stale,             \* cancelled utterances that may still call back
  timers,            \* pending setTimeout(readContent/readComment, 100)
  allContent,        \* content.ts: the item queue
  currentIndex,      \* content.ts: the play cursor
  playbackSpeed,     \* content.ts: rate in tenths
  isPlaying,         \* content.ts: transport flag
  isPaused,          \* content.ts: transport flag
  currentUtterance,  \* content.ts: "null" or "utterance"
  postHighlight,     \* the post element carries the highlight style
  commentHighlight,  \* thing id of the comment carrying the highlight, 0 if none
  peComments,        \* PlaybackEngine.comments
  peCurrentIndex,    \* PlaybackEngine.currentIndex
  pePlaybackSpeed,   \* PlaybackEngine.playbackSpeed, in tenths
  peUtterance,       \* PlaybackEngine.utterance: "null" or "utterance"
  filteredVoices,    \* content.ts: the voices of the locale, in engine order
  selectedVoiceNames,\* content.ts: names of the voices the user allows
  useUniqueVoices,   \* content.ts: rotate the voices over the items
  rcStep,            \* readContent: next statement group to run, 0 outside
  rcIndex,           \* readContent: its argument
  rcVoice,           \* readContent: its local voice
  rcNotified,        \* readContent: the highlight call it has made
  docTotal,          \* document: number of shreddit-comment nodes
  docTopLevel,       \* document: those with depth="0"
  isExtracting,      \* content.ts: an expansion run is in progress
  shouldStopExtraction, \* content.ts: the stop signal
  extractionProgress,\* content.ts: the last total the run has seen
  xpPc,              \* expandCommentsToDepth: where the run is suspended
  targetDepth,       \* expandCommentsToDepth: parameter
  maxTopLevel,       \* expandCommentsToDepth: parameter
  maxTotal,          \* expandCommentsToDepth: parameter
  strategy,          \* expandCommentsToDepth: parameter
  iterations,        \* expandCommentsToDepth: local
  buttonsToClick,    \* expandCommentsToDepth: local of the iteration
  i,                 \* expandCommentsToDepth: start of the batch invoked last
  otherRuns,         \* expansion runs of later requests still in progress
  stopRequested,     \* a stop signal was sent since the run began
  document,          \* the page: sanitizable title and body, comment nodes
  comments,          \* content.ts: the records of the last extraction pass
  pendingRequests,   \* extractComments handlers suspended in their await
  responsesSent,     \* sendResponse calls made for extractComments requests
  lastResponse,      \* the response sent last
  callArg,           \* argument of the function applied last
  callResult,        \* what it returned
  cleanedUp,         \* cleanup() has run on this page
  stopIssued         \* stop() or cleanup() ran, no play/next/previous since

synthVars == <<synthQueue, synthPaused, stale, timers>>
contentVars == <<allContent, currentIndex, playbackSpeed, isPlaying, isPaused,
                 currentUtterance, postHighlight, commentHighlight>>
peVars == <<peComments, peCurrentIndex, pePlaybackSpeed, peUtterance>>
voiceVars == <<filteredVoices, selectedVoiceNames, useUniqueVoices>>
readVars == <<rcStep, rcIndex, rcVoice, rcNotified>>
\* what the transport handlers and the engine callbacks never assign
docVars == <<docTotal, docTopLevel>>
flagVars == <<isExtracting, shouldStopExtraction, extractionProgress>>
runVars == <<xpPc, targetDepth, maxTopLevel, maxTotal, strategy,
             iterations, buttonsToClick, i>>
expandVars == <<docVars, flagVars, runVars, otherRuns, stopRequested>>
extractVars == <<document, comments, pendingRequests, responsesSent,
                 lastResponse>>
callVars == <<callArg, callResult>>
otherVars == <<extractVars, callVars, cleanedUp, stopIssued>>
restVars == <<voiceVars, readVars, expandVars, otherVars>>
\* the variables no transport request touches
keptVars ==
  <<voiceVars, readVars, expandVars, extractVars, callVars, cleanedUp>>
\* every variable of the program and of its engine, the ghost stopIssued
\* left out
programVars ==
  <<driver, cancelKeepsPaused, synthVars, contentVars, peVars, keptVars>>
vars == <<driver, cancelKeepsPaused, synthVars, contentVars, peVars, restVars>>

Min(a, b) == IF a < b THEN a ELSE b
Max(a, b) == IF a > b THEN a ELSE b

\* ------------------------------------------------------ the speech engine
\* synthesis.speaking
synthSpeaking == Len(synthQueue) > 0

\* new SpeechSynthesisUtterance(text) with its rate, for the item at index
Utterance(index, rate) == [idx |-> index, rate |-> rate]

\* synthesis.speak(u)
SynthSpeak(q, u) == Append(q, u)

\* number of late callbacks outstanding after synthesis.cancel()
StaleAfterCancel == stale + Len(synthQueue)

\* synthesis.paused after synthesis.cancel()
PausedAfterCancel == IF cancelKeepsPaused THEN synthPaused ELSE FALSE

\* ---------------------------------------------------- content.ts: queue
TitleItem == [type |-> "title", id |-> 0]
BodyItem == [type |-> "body", id |-> 0]
CommentItem(c) == [type |-> "comment", id |-> c]

\* the comment records of an extraction pass over a document with n nodes
ExtractedComments(n) == [k \in 1..n |-> k]

\* fault: the body is queued before the title
BuildAllContentBodyFirst(hasTitle, hasBody, records) ==
  (IF hasBody THEN <<BodyItem>> ELSE <<>>)
    \o (IF hasTitle THEN <<TitleItem>> ELSE <<>>)
    \o [k \in 1..Len(records) |-> CommentItem(records[k])]

\* the queue rebuilt at the end of an extractComments request
BuildAllContent(hasTitle, hasBody, records) ==
  (IF hasTitle THEN <<TitleItem>> ELSE <<>>)
    \o (IF hasBody THEN <<BodyItem>> ELSE <<>>)
    \o [k \in 1..Len(records) |-> CommentItem(records[k])]

\* ------------------------------------------------ content.ts: highlights
\* highlightPost() / highlightComment(id) as called from readContent
PostHighlightAfterRead(item) ==
  IF item.type \in {"title", "body"} THEN TRUE
  ELSE IF item.id # 0 THEN FALSE ELSE postHighlight

CommentHighlightAfterRead(item) ==
  IF item.type \in {"title", "body"} THEN commentHighlight
  ELSE IF item.id # 0 THEN item.id ELSE commentHighlight

\* --------------------------------------------- content.ts: readContent
\* the highlight calls readContent can make
NoCall == [kind |-> "none", id |-> 0]
HighlightPostCall == [kind |-> "post", id |-> 0]
HighlightCommentCall(id) == [kind |-> "comment", id |-> id]

ReadContentValid(index) == ~(index >= Len(allContent) \/ index < 0)

\* readContent(index) applied to the engine queue q
ReadContent(index, q) ==
  IF ReadContentValid(index)
  THEN /\ postHighlight' = PostHighlightAfterRead(allContent[index + 1])
       /\ commentHighlight' = CommentHighlightAfterRead(allContent[index + 1])
       /\ currentUtterance' = "utterance"
       /\ synthQueue' = SynthSpeak(q, Utterance(index, playbackSpeed))
       /\ isPlaying' = TRUE
       /\ isPaused' = FALSE
  ELSE /\ synthQueue' = q
       /\ UNCHANGED <<postHighlight, commentHighlight, currentUtterance,
                      isPlaying, isPaused>>

\* ------------------------------------------- content.ts: getVoiceForIndex
\* a voice is known by its name; 0 is null and -1 a local not yet assigned
NoVoice == 0
Unresolved == -1

\* filteredVoices.filter(v => selectedVoiceNames.includes(v.name)), with the
\* fallback to the whole pool
VoicesToUse ==
  IF selectedVoiceNames # {}
  THEN LET allowed == SelectSeq(filteredVoices,
                                LAMBDA v : v \in selectedVoiceNames)
       IN IF Len(allowed) = 0 THEN filteredVoices ELSE allowed
  ELSE filteredVoices

\* fault: the allowlist is applied even when nothing of the pool is in it
\* and when rotation is off
GetVoiceForIndexAllowlistFirst(index) ==
  LET allowed == SelectSeq(filteredVoices,
                           LAMBDA v : v \in selectedVoiceNames)
      voicesToUse == IF selectedVoiceNames # {} THEN allowed
                     ELSE filteredVoices
  IN IF Len(voicesToUse) = 0 THEN NoVoice
     ELSE IF ~useUniqueVoices THEN voicesToUse[1]
     ELSE voicesToUse[(index % Len(voicesToUse)) + 1]

\* getVoiceForIndex(index)
GetVoiceForIndex(index) ==
  IF Len(filteredVoices) = 0 THEN NoVoice
  ELSE IF ~useUniqueVoices THEN filteredVoices[1]
  ELSE VoicesToUse[(index % Len(VoicesToUse)) + 1]

\* work the engine and the timers still owe the sequencer
Outstanding == Len(synthQueue) + stale + timers

Room == Outstanding < MaxOutstanding

\* the expansion state of a page on which no request has arrived yet; the
\* parameters stand at the defaults of the module
NoRunYet ==
  /\ isExtracting = FALSE
  /\ shouldStopExtraction = FALSE
  /\ extractionProgress = 0
  /\ xpPc = "none"
  /\ targetDepth = 3
  /\ maxTopLevel = 50
  /\ maxTotal = 300
  /\ strategy = "balanced"
  /\ iterations = 0
  /\ buttonsToClick = <<>>
  /\ i = 0
  /\ otherRuns = 0
  /\ stopRequested = FALSE

\* a page without title, body and comments
EmptyDocument == [title |-> <<>>, body |-> <<>>, nodes |-> <<>>]

\* the fields of a response that the model keeps; kind tells the success
\* response, the error response and no response apart
NoResponse == [kind |-> "none", success |-> FALSE, count |-> -1,
               totalItems |-> -1, hasTitle |-> FALSE, hasBody |-> FALSE]

\* no extractComments request has arrived
NoExtractionYet ==
  /\ document = EmptyDocument
  /\ comments = <<>>
  /\ pendingRequests = 0
  /\ responsesSent = 0
  /\ lastResponse = NoResponse

\* a function that has not returned, and one that has returned v
NoValue == [done |-> FALSE, value |-> <<>>]
Returned(v) == [done |-> TRUE, value |-> v]

\* no function has been applied
NoCallYet ==
  /\ callArg = <<>>
  /\ callResult = NoValue

\* the content script and the engine class as they are after construction,
\* on a page whose speech engine behaves as the standard says
PlaybackIdle ==
  /\ driver = "content"
  /\ cancelKeepsPaused = FALSE
  /\ synthQueue = <<>>
  /\ synthPaused = FALSE
  /\ stale = 0
  /\ timers = 0
  /\ allContent = <<>>
  /\ currentIndex = 0
  /\ playbackSpeed = 10
  /\ isPlaying = FALSE
  /\ isPaused = FALSE
  /\ currentUtterance = "null"
  /\ postHighlight = FALSE
  /\ commentHighlight = 0
  /\ peComments = <<>>
  /\ peCurrentIndex = 0
  /\ pePlaybackSpeed = 10
  /\ peUtterance = "null"
  /\ filteredVoices = <<>>
  /\ selectedVoiceNames = {}
  /\ useUniqueVoices = TRUE
  /\ rcStep = 0
  /\ rcIndex = 0
  /\ rcVoice = -1
  /\ rcNotified = [kind |-> "none", id |-> 0]
  /\ docTotal = 0
  /\ docTopLevel = 0
  /\ NoRunYet
  /\ cleanedUp = FALSE
  /\ stopIssued = FALSE

\* --------------------------------------------------- content.ts: Init
Init ==
  /\ driver \in {"content", "engine"}
  /\ cancelKeepsPaused \in BOOLEAN
  /\ synthQueue = <<>>
  /\ synthPaused = FALSE
  /\ stale = 0
  /\ timers = 0
  /\ allContent = <<>>
  /\ currentIndex = 0
  /\ playbackSpeed = 10
  /\ isPlaying = FALSE
  /\ isPaused = FALSE
  /\ currentUtterance = "null"
  /\ postHighlight = FALSE
  /\ commentHighlight = 0
  /\ peComments = <<>>
  /\ peCurrentIndex = 0
  /\ pePlaybackSpeed = 10
  /\ peUtterance = "null"
  /\ filteredVoices = <<>>
  /\ selectedVoiceNames = {}
  /\ useUniqueVoices = TRUE
  /\ rcStep = 0
  /\ rcIndex = 0
  /\ rcVoice = Unresolved
  /\ rcNotified = NoCall
  /\ docTotal = 0
  /\ docTopLevel = 0
  /\ NoRunYet
  /\ cleanedUp = FALSE
  /\ stopIssued = FALSE
  /\ NoExtractionYet
  /\ NoCallYet

\* ------------------------------------------ content.ts: message handlers
\* fault: the rebuild forgets to reset the cursor
ExtractCommentsKeepsCursor ==
  /\ driver = "content"
  /\ \E hasTitle \in BOOLEAN, hasBody \in BOOLEAN, n \in 0..MaxComments :
       allContent' = BuildAllContent(hasTitle, hasBody, ExtractedComments(n))
  /\ UNCHANGED restVars
  /\ UNCHANGED <<driver, cancelKeepsPaused, synthVars, currentIndex,
                 playbackSpeed, isPlaying, isPaused, currentUtterance,
                 postHighlight, commentHighlight, peVars>>

\* case 'extractComments', the continuation after the expansion run
ExtractComments ==
  /\ driver = "content"
  /\ \E hasTitle \in BOOLEAN, hasBody \in BOOLEAN, n \in 0..MaxComments :
       allContent' = BuildAllContent(hasTitle, hasBody, ExtractedComments(n))
  /\ currentIndex' = 0
  /\ UNCHANGED restVars
  /\ UNCHANGED <<driver, cancelKeepsPaused, synthVars, playbackSpeed,
                 isPlaying, isPaused, currentUtterance, postHighlight,
                 commentHighlight, peVars>>

\* fault: play() does not test synthesis.speaking before reading
PlayIgnoresSpeaking ==
  /\ driver = "content"
  /\ IF synthPaused
     THEN /\ synthPaused' = FALSE
          /\ isPaused' = FALSE
          /\ isPlaying' = TRUE
          /\ UNCHANGED <<synthQueue, currentUtterance, postHighlight,
                         commentHighlight>>
     ELSE /\ Room
          /\ ReadContent(currentIndex, synthQueue)
          /\ UNCHANGED synthPaused
  /\ stopIssued' = FALSE
  /\ UNCHANGED keptVars
  /\ UNCHANGED <<driver, cancelKeepsPaused, stale, timers, allContent,
                 currentIndex, playbackSpeed, peVars>>

\* case 'play'
Play ==
  /\ driver = "content"
  /\ IF synthPaused
     THEN /\ synthPaused' = FALSE
          /\ isPaused' = FALSE
          /\ isPlaying' = TRUE
          /\ UNCHANGED <<synthQueue, currentUtterance, postHighlight,
                         commentHighlight>>
     ELSE IF ~synthSpeaking
     THEN /\ ReadContentValid(currentIndex) => Room
          /\ ReadContent(currentIndex, synthQueue)
          /\ UNCHANGED synthPaused
     ELSE UNCHANGED <<synthQueue, synthPaused, isPaused, isPlaying,
                      currentUtterance, postHighlight, commentHighlight>>
  /\ stopIssued' = FALSE
  /\ UNCHANGED keptVars
  /\ UNCHANGED <<driver, cancelKeepsPaused, stale, timers, allContent,
                 currentIndex, playbackSpeed, peVars>>

\* fault: pause() does not test synthesis.speaking
PauseUnconditional ==
  /\ driver = "content"
  /\ synthPaused' = TRUE
  /\ isPaused' = TRUE
  /\ isPlaying' = FALSE
  /\ UNCHANGED restVars
  /\ UNCHANGED <<driver, cancelKeepsPaused, synthQueue, stale, timers,
                 allContent, currentIndex, playbackSpeed, currentUtterance,
                 postHighlight, commentHighlight, peVars>>

\* case 'pause'
Pause ==
  /\ driver = "content"
  /\ IF synthSpeaking
     THEN /\ synthPaused' = TRUE
          /\ isPaused' = TRUE
          /\ isPlaying' = FALSE
     ELSE UNCHANGED <<synthPaused, isPaused, isPlaying>>
  /\ UNCHANGED restVars
  /\ UNCHANGED <<driver, cancelKeepsPaused, synthQueue, stale, timers,
                 allContent, currentIndex, playbackSpeed, currentUtterance,
                 postHighlight, commentHighlight, peVars>>

\* fault: stop() cancels but leaves the cursor where it is
StopKeepsCursor ==
  /\ driver = "content"
  /\ synthQueue' = <<>>
  /\ stale' = StaleAfterCancel
  /\ synthPaused' = PausedAfterCancel
  /\ isPlaying' = FALSE
  /\ isPaused' = FALSE
  /\ postHighlight' = FALSE
  /\ commentHighlight' = 0
  /\ stopIssued' = TRUE
  /\ UNCHANGED keptVars
  /\ UNCHANGED <<driver, cancelKeepsPaused, timers, allContent, currentIndex,
                 playbackSpeed, currentUtterance, peVars>>

\* case 'stop'
Stop ==
  /\ driver = "content"
  /\ synthQueue' = <<>>
  /\ stale' = StaleAfterCancel
  /\ synthPaused' = PausedAfterCancel
  /\ currentIndex' = 0
  /\ isPlaying' = FALSE
  /\ isPaused' = FALSE
  /\ postHighlight' = FALSE
  /\ commentHighlight' = 0
  /\ stopIssued' = TRUE
  /\ UNCHANGED keptVars
  /\ UNCHANGED <<driver, cancelKeepsPaused, timers, allContent, playbackSpeed,
                 currentUtterance, peVars>>

\* case 'next'
NextItem ==
  /\ driver = "content"
  /\ currentIndex < Len(allContent) - 1 => Room
  /\ stale' = StaleAfterCancel
  /\ synthPaused' = PausedAfterCancel
  /\ IF currentIndex < Len(allContent) - 1
     THEN /\ currentIndex' = currentIndex + 1
          /\ ReadContent(currentIndex + 1, <<>>)
     ELSE /\ synthQueue' = <<>>
          /\ UNCHANGED <<currentIndex, isPlaying, isPaused, currentUtterance,
                         postHighlight, commentHighlight>>
  /\ stopIssued' = FALSE
  /\ UNCHANGED keptVars
  /\ UNCHANGED <<driver, cancelKeepsPaused, timers, allContent, playbackSpeed,
                 peVars>>

\* fault: previous() at the first item only cancels
PreviousStopsAtFirst ==
  /\ driver = "content"
  /\ Len(allContent) > 0 => Room
  /\ stale' = StaleAfterCancel
  /\ synthPaused' = PausedAfterCancel
  /\ IF currentIndex > 0
     THEN /\ currentIndex' = currentIndex - 1
          /\ ReadContent(currentIndex - 1, <<>>)
     ELSE /\ synthQueue' = <<>>
          /\ UNCHANGED <<currentIndex, isPlaying, isPaused, currentUtterance,
                         postHighlight, commentHighlight>>
  /\ stopIssued' = FALSE
  /\ UNCHANGED keptVars
  /\ UNCHANGED <<driver, cancelKeepsPaused, timers, allContent, playbackSpeed,
                 peVars>>

\* case 'previous'
Previous ==
  /\ driver = "content"
  /\ Len(allContent) > 0 => Room
  /\ stale' = StaleAfterCancel
  /\ synthPaused' = PausedAfterCancel
  /\ currentIndex' = IF currentIndex > 0 THEN currentIndex - 1 ELSE currentIndex
  /\ ReadContent(currentIndex', <<>>)
  /\ stopIssued' = FALSE
  /\ UNCHANGED keptVars
  /\ UNCHANGED <<driver, cancelKeepsPaused, timers, allContent, playbackSpeed,
                 peVars>>

\* ---------------------------------------------- content.ts: callbacks
\* fault: onend advances the cursor without scheduling the next item
OnEndNoTimer ==
  IF currentIndex < Len(allContent) - 1
  THEN /\ currentIndex' = currentIndex + 1
       /\ UNCHANGED <<timers, isPlaying, postHighlight, commentHighlight>>
  ELSE /\ isPlaying' = FALSE
       /\ postHighlight' = FALSE
       /\ commentHighlight' = 0
       /\ UNCHANGED <<currentIndex, timers>>

\* currentUtterance.onend
OnEnd ==
  IF currentIndex < Len(allContent) - 1
  THEN /\ currentIndex' = currentIndex + 1
       /\ timers' = timers + 1
       /\ UNCHANGED <<isPlaying, postHighlight, commentHighlight>>
  ELSE /\ isPlaying' = FALSE
       /\ postHighlight' = FALSE
       /\ commentHighlight' = 0
       /\ UNCHANGED <<currentIndex, timers>>

\* fault: onerror schedules another attempt at the item
OnErrorRetries ==
  /\ isPlaying' = FALSE
  /\ timers' = timers + 1
  /\ UNCHANGED <<currentIndex, postHighlight, commentHighlight>>

\* currentUtterance.onerror
OnError ==
  /\ isPlaying' = FALSE
  /\ UNCHANGED <<currentIndex, timers, postHighlight, commentHighlight>>

\* the engine finishes the utterance being spoken and calls its onend
SpeechEnd ==
  /\ driver = "content"
  /\ synthSpeaking /\ ~synthPaused
  /\ synthQueue' = Tail(synthQueue)
  /\ OnEnd
  /\ UNCHANGED restVars
  /\ UNCHANGED <<driver, cancelKeepsPaused, synthPaused, stale, allContent,
                 playbackSpeed, isPaused, currentUtterance, peVars>>

\* the engine fails the utterance being spoken and calls its onerror
SpeechError ==
  /\ driver = "content"
  /\ synthSpeaking
  /\ synthQueue' = Tail(synthQueue)
  /\ OnError
  /\ UNCHANGED restVars
  /\ UNCHANGED <<driver, cancelKeepsPaused, synthPaused, stale, allContent,
                 playbackSpeed, isPaused, currentUtterance, peVars>>

\* the onend of an utterance that cancel() removed arrives late
LateEnd ==
  /\ driver = "content"
  /\ stale > 0
  /\ stale' = stale - 1
  /\ OnEnd
  /\ UNCHANGED restVars
  /\ UNCHANGED <<driver, cancelKeepsPaused, synthQueue, synthPaused,
                 allContent, playbackSpeed, isPaused, currentUtterance, peVars>>

\* the onerror of an utterance that cancel() removed arrives late
LateError ==
  /\ driver = "content"
  /\ stale > 0
  /\ stale' = stale - 1
  /\ OnError
  /\ UNCHANGED restVars
  /\ UNCHANGED <<driver, cancelKeepsPaused, synthQueue, synthPaused,
                 allContent, playbackSpeed, isPaused, currentUtterance, peVars>>

\* setTimeout(() => readContent(currentIndex), 100) fires
TimerFire ==
  /\ driver = "content"
  /\ timers > 0
  /\ timers' = timers - 1
  /\ ReadContent(currentIndex, synthQueue)
  /\ UNCHANGED restVars
  /\ UNCHANGED <<driver, cancelKeepsPaused, synthPaused, stale, allContent,
                 currentIndex, playbackSpeed, peVars>>

\* case 'cleanup', and the beforeunload listener: cleanup()
Cleanup ==
  /\ driver = "content"
  /\ synthQueue' = <<>>
  /\ stale' = StaleAfterCancel
  /\ synthPaused' = PausedAfterCancel
  /\ postHighlight' = FALSE
  /\ commentHighlight' = 0
  /\ isPlaying' = FALSE
  /\ isPaused' = FALSE
  /\ currentUtterance' = "null"
  /\ cleanedUp' = TRUE
  /\ stopIssued' = TRUE
  /\ UNCHANGED <<driver, cancelKeepsPaused, timers, allContent,
                 currentIndex, playbackSpeed, peVars, voiceVars, readVars,
                 expandVars, extractVars, callVars>>

\* fault: the URL change leaves the cursor where it was
NavigationResetKeepsCursor ==
  /\ driver = "content"
  /\ synthQueue' = <<>>
  /\ stale' = StaleAfterCancel
  /\ synthPaused' = PausedAfterCancel
  /\ postHighlight' = FALSE
  /\ commentHighlight' = 0
  /\ isPlaying' = FALSE
  /\ isPaused' = FALSE
  /\ currentUtterance' = "null"
  /\ cleanedUp' = TRUE
  /\ stopIssued' = TRUE
  /\ comments' = <<>>
  /\ allContent' = <<>>
  /\ UNCHANGED <<driver, cancelKeepsPaused, timers, currentIndex,
                 playbackSpeed, peVars, voiceVars, readVars, expandVars,
                 document, pendingRequests, responsesSent, lastResponse,
                 callVars>>

\* the MutationObserver callback on a changed URL: cleanup(), then the
\* records, the queue and the cursor are reset
NavigationReset ==
  /\ driver = "content"
  /\ synthQueue' = <<>>
  /\ stale' = StaleAfterCancel
  /\ synthPaused' = PausedAfterCancel
  /\ postHighlight' = FALSE
  /\ commentHighlight' = 0
  /\ isPlaying' = FALSE
  /\ isPaused' = FALSE
  /\ currentUtterance' = "null"
  /\ cleanedUp' = TRUE
  /\ stopIssued' = TRUE
  /\ comments' = <<>>
  /\ allContent' = <<>>
  /\ currentIndex' = 0
  /\ UNCHANGED <<driver, cancelKeepsPaused, timers, playbackSpeed, peVars,
                 voiceVars, readVars, expandVars, document, pendingRequests,
                 responsesSent, lastResponse, callVars>>

ContentNext ==
  \/ ExtractComments
  \/ Play
  \/ Pause
  \/ Stop
  \/ NextItem
  \/ Previous
  \/ SpeechEnd
  \/ SpeechError
  \/ LateEnd
  \/ LateError
  \/ TimerFire

\* ------------------------------------------------ PlaybackEngine methods
\* fault: readComment tests only the lower bound of its index
PeReadCommentValidNoUpper(index) == ~(index < 0)

PeReadCommentValid(index) == ~(index < 0 \/ index >= Len(peComments))

\* readComment(index) applied to the engine queue q
PeReadComment(index, q) ==
  IF PeReadCommentValid(index)
  THEN /\ peUtterance' = "utterance"
       /\ synthQueue' = SynthSpeak(q, Utterance(index, pePlaybackSpeed))
  ELSE /\ synthQueue' = q
       /\ UNCHANGED peUtterance

\* loadComments(comments)
PeLoadComments ==
  /\ driver = "engine"
  /\ \E n \in 0..MaxComments + 1 : peComments' = [k \in 1..n |-> k]
  /\ peCurrentIndex' = 0
  /\ UNCHANGED restVars
  /\ UNCHANGED <<driver, cancelKeepsPaused, synthVars, contentVars,
                 pePlaybackSpeed, peUtterance>>

\* play()
PePlay ==
  /\ driver = "engine"
  /\ IF Len(peComments) = 0
     THEN UNCHANGED <<synthQueue, synthPaused, peUtterance>>
     ELSE IF synthPaused
     THEN /\ synthPaused' = FALSE
          /\ UNCHANGED <<synthQueue, peUtterance>>
     ELSE IF synthSpeaking
     THEN UNCHANGED <<synthQueue, synthPaused, peUtterance>>
     ELSE /\ PeReadCommentValid(peCurrentIndex) => Room
          /\ PeReadComment(peCurrentIndex, synthQueue)
          /\ UNCHANGED synthPaused
  /\ stopIssued' = FALSE
  /\ UNCHANGED keptVars
  /\ UNCHANGED <<driver, cancelKeepsPaused, stale, timers, contentVars,
                 peComments, peCurrentIndex, pePlaybackSpeed>>

\* pause()
PePause ==
  /\ driver = "engine"
  /\ synthPaused' = IF synthSpeaking /\ ~synthPaused THEN TRUE ELSE synthPaused
  /\ UNCHANGED restVars
  /\ UNCHANGED <<driver, cancelKeepsPaused, synthQueue, stale, timers,
                 contentVars, peVars>>

\* stop()
PeStop ==
  /\ driver = "engine"
  /\ synthQueue' = <<>>
  /\ stale' = StaleAfterCancel
  /\ synthPaused' = PausedAfterCancel
  /\ peCurrentIndex' = 0
  /\ peUtterance' = "null"
  /\ stopIssued' = TRUE
  /\ UNCHANGED keptVars
  /\ UNCHANGED <<driver, cancelKeepsPaused, timers, contentVars, peComments,
                 pePlaybackSpeed>>

\* next()
PeNext ==
  /\ driver = "engine"
  /\ peCurrentIndex < Len(peComments) - 1 => Room
  /\ stale' = StaleAfterCancel
  /\ synthPaused' = PausedAfterCancel
  /\ IF peCurrentIndex < Len(peComments) - 1
     THEN /\ peCurrentIndex' = peCurrentIndex + 1
          /\ PeReadComment(peCurrentIndex + 1, <<>>)
     ELSE /\ synthQueue' = <<>>
          /\ peCurrentIndex' = 0
          /\ peUtterance' = "null"
  /\ stopIssued' = FALSE
  /\ UNCHANGED keptVars
  /\ UNCHANGED <<driver, cancelKeepsPaused, timers, contentVars, peComments,
                 pePlaybackSpeed>>

\* previous()
PePrevious ==
  /\ driver = "engine"
  /\ Len(peComments) > 0 => Room
  /\ stale' = StaleAfterCancel
  /\ synthPaused' = PausedAfterCancel
  /\ peCurrentIndex' = IF peCurrentIndex > 0 THEN peCurrentIndex - 1 ELSE 0
  /\ PeReadComment(peCurrentIndex', <<>>)
  /\ stopIssued' = FALSE
  /\ UNCHANGED keptVars
  /\ UNCHANGED <<driver, cancelKeepsPaused, timers, contentVars, peComments,
                 pePlaybackSpeed>>

\* utterance.onend, run when the engine queue is q and st late callbacks
\* are outstanding
PeOnEnd(q, st) ==
  IF peCurrentIndex < Len(peComments) - 1
  THEN /\ peCurrentIndex' = peCurrentIndex + 1
       /\ timers' = timers + 1
       /\ synthQueue' = q
       /\ stale' = st
       /\ UNCHANGED <<synthPaused, peUtterance>>
  ELSE /\ synthQueue' = <<>>
       /\ stale' = st + Len(q)
       /\ synthPaused' = PausedAfterCancel
       /\ peCurrentIndex' = 0
       /\ peUtterance' = "null"
       /\ UNCHANGED timers

\* the engine finishes the utterance being spoken and calls its onend
PeSpeechEnd ==
  /\ driver = "engine"
  /\ synthSpeaking /\ ~synthPaused
  /\ PeOnEnd(Tail(synthQueue), stale)
  /\ UNCHANGED restVars
  /\ UNCHANGED <<driver, cancelKeepsPaused, contentVars, peComments,
                 pePlaybackSpeed>>

\* the engine fails the utterance being spoken; utterance.onerror only
\* reports the state
PeSpeechError ==
  /\ driver = "engine"
  /\ synthSpeaking
  /\ synthQueue' = Tail(synthQueue)
  /\ UNCHANGED restVars
  /\ UNCHANGED <<driver, cancelKeepsPaused, synthPaused, stale, timers,
                 contentVars, peVars>>

\* the onend of an utterance that cancel() removed arrives late
PeLateEnd ==
  /\ driver = "engine"
  /\ stale > 0
  /\ PeOnEnd(synthQueue, stale - 1)
  /\ UNCHANGED restVars
  /\ UNCHANGED <<driver, cancelKeepsPaused, contentVars, peComments,
                 pePlaybackSpeed>>

\* the onerror of an utterance that cancel() removed arrives late
PeLateError ==
  /\ driver = "engine"
  /\ stale > 0
  /\ stale' = stale - 1
  /\ UNCHANGED restVars
  /\ UNCHANGED <<driver, cancelKeepsPaused, synthQueue, synthPaused, timers,
                 contentVars, peVars>>

\* setTimeout(() => this.readComment(this.currentIndex), 100) fires
PeTimerFire ==
  /\ driver = "engine"
  /\ timers > 0
  /\ timers' = timers - 1
  /\ PeReadComment(peCurrentIndex, synthQueue)
  /\ UNCHANGED restVars
  /\ UNCHANGED <<driver, cancelKeepsPaused, synthPaused, stale, contentVars,
                 peComments, peCurrentIndex, pePlaybackSpeed>>

EngineNext ==
  \/ PeLoadComments
  \/ PePlay
  \/ PePause
  \/ PeStop
  \/ PeNext
  \/ PePrevious
  \/ PeSpeechEnd
  \/ PeSpeechError
  \/ PeLateEnd
  \/ PeLateError
  \/ PeTimerFire

Next == ContentNext \/ EngineNext

Spec == Init /\ [][Next]_vars

\* the content script with the host's cleanup request
CleanupInit == Init /\ driver = "content"

CleanupNext == ContentNext \/ Cleanup

CleanupSpec == CleanupInit /\ [][CleanupNext]_vars

\* the content script with every way its queue and cursor are reset
ResetNext == CleanupNext \/ NavigationReset

ResetSpec == CleanupInit /\ [][ResetNext]_vars

\* the 100 ms timer is a browser timer: once set it fires
FairSpec == Spec /\ WF_vars(TimerFire) /\ WF_vars(PeTimerFire)

\* ------------------------------------------------------------- setSpeed
\* the rates a setSpeed request can carry, in tenths: below the range, the
\* default, inside the range, above the range
Rates == {3, 10, 15, 25}

\* the limits of PlaybackEngine.setSpeed, in tenths
MinSpeed == 5
MaxSpeed == 20

\* Math.max(0.5, Math.min(2.0, speed))
ClampSpeed(speed) == Max(MinSpeed, Min(MaxSpeed, speed))

\* case 'setSpeed'
SetSpeed(speed) ==
  /\ driver = "content"
  /\ playbackSpeed' = speed
  /\ UNCHANGED restVars
  /\ UNCHANGED <<driver, cancelKeepsPaused, synthVars, allContent,
                 currentIndex, isPlaying, isPaused, currentUtterance,
                 postHighlight, commentHighlight, peVars>>

\* q with the rate of its last utterance replaced
WithLastRate(q, rate) ==
  [k \in 1..Len(q) |-> IF k = Len(q) THEN [q[k] EXCEPT !.rate = rate]
                       ELSE q[k]]

\* PlaybackEngine.setSpeed: this.utterance is the utterance created last,
\* which is the last of the engine queue while the queue is not empty
PeSetSpeed(speed) ==
  /\ driver = "engine"
  /\ pePlaybackSpeed' = ClampSpeed(speed)
  /\ synthQueue' = IF peUtterance # "null"
                   THEN WithLastRate(synthQueue, ClampSpeed(speed))
                   ELSE synthQueue
  /\ UNCHANGED restVars
  /\ UNCHANGED <<driver, cancelKeepsPaused, synthPaused, stale, timers,
                 contentVars, peComments, peCurrentIndex, peUtterance>>

\* playback with speed changes
SpeedNext ==
  \/ ExtractComments
  \/ Play
  \/ NextItem
  \/ SpeechEnd
  \/ TimerFire
  \/ \E speed \in Rates : SetSpeed(speed)
  \/ PeLoadComments
  \/ PePlay
  \/ PeNext
  \/ PeSpeechEnd
  \/ PeTimerFire
  \/ \E speed \in Rates : PeSetSpeed(speed)

SpeedSpec == Init /\ [][SpeedNext]_vars

\* ------------------------------- content.ts: readContent, step by step
\* The transport handlers above run readContent as one step.  Here its
\* statements run one group at a time, in program order, so that the order
\* of its effects can be observed; nothing else runs in between.

\* the installed voices, the allowlist and the rotation switch a page can
\* have when playback starts
ReadVoicePools == {[k \in 1..n |-> k] : n \in {0, MaxVoices}}
ReadAllowlists == {{}, {2}}

ReadInit ==
  /\ driver = "content"
  /\ cancelKeepsPaused = FALSE
  /\ synthQueue = <<>>
  /\ synthPaused = FALSE
  /\ stale = 0
  /\ timers = 0
  /\ allContent = <<>>
  /\ currentIndex = 0
  /\ playbackSpeed = 10
  /\ isPlaying = FALSE
  /\ isPaused = FALSE
  /\ currentUtterance = "null"
  /\ postHighlight = FALSE
  /\ commentHighlight = 0
  /\ peComments = <<>>
  /\ peCurrentIndex = 0
  /\ pePlaybackSpeed = 10
  /\ peUtterance = "null"
  /\ filteredVoices \in ReadVoicePools
  /\ selectedVoiceNames \in ReadAllowlists
  /\ useUniqueVoices \in BOOLEAN
  /\ rcStep = 0
  /\ rcIndex = 0
  /\ rcVoice = Unresolved
  /\ rcNotified = NoCall
  /\ docTotal = 0
  /\ docTopLevel = 0
  /\ NoRunYet
  /\ cleanedUp = FALSE
  /\ stopIssued = FALSE
  /\ NoExtractionYet
  /\ NoCallYet

\* fault: the utterance is submitted before the highlight call
ReadContentStepsSpeakFirst == <<"voice", "speak", "highlight">>

\* the statement groups of readContent in program order: the voice lookup,
\* the highlight call, and the utterance built and handed to speak()
ReadContentSteps == <<"voice", "highlight", "speak">>

\* readContent(index) is entered with a valid index
RcEnter(index) ==
  /\ rcStep' = 1
  /\ rcIndex' = index
  /\ rcVoice' = Unresolved
  /\ rcNotified' = NoCall

\* case 'play' with the engine idle: readContent(currentIndex)
RcPlay ==
  /\ driver = "content"
  /\ rcStep = 0
  /\ ~synthPaused /\ ~synthSpeaking
  /\ ReadContentValid(currentIndex)
  /\ Room
  /\ RcEnter(currentIndex)
  /\ stopIssued' = FALSE
  /\ UNCHANGED <<extractVars, callVars, cleanedUp>>
  /\ UNCHANGED <<driver, cancelKeepsPaused, synthVars, contentVars, peVars,
                 voiceVars, expandVars>>

\* case 'next' below the last index: cancel, advance, readContent
RcNextItem ==
  /\ driver = "content"
  /\ rcStep = 0
  /\ currentIndex < Len(allContent) - 1
  /\ Room
  /\ synthQueue' = <<>>
  /\ stale' = StaleAfterCancel
  /\ synthPaused' = PausedAfterCancel
  /\ currentIndex' = currentIndex + 1
  /\ RcEnter(currentIndex + 1)
  /\ stopIssued' = FALSE
  /\ UNCHANGED <<extractVars, callVars, cleanedUp>>
  /\ UNCHANGED <<driver, cancelKeepsPaused, timers, allContent, playbackSpeed,
                 isPlaying, isPaused, currentUtterance, postHighlight,
                 commentHighlight, peVars, voiceVars, expandVars>>

\* case 'previous' on a non-empty queue: cancel, step back, readContent
RcPrevious ==
  /\ driver = "content"
  /\ rcStep = 0
  /\ Len(allContent) > 0
  /\ Room
  /\ synthQueue' = <<>>
  /\ stale' = StaleAfterCancel
  /\ synthPaused' = PausedAfterCancel
  /\ currentIndex' = Max(0, currentIndex - 1)
  /\ RcEnter(Max(0, currentIndex - 1))
  /\ stopIssued' = FALSE
  /\ UNCHANGED <<extractVars, callVars, cleanedUp>>
  /\ UNCHANGED <<driver, cancelKeepsPaused, timers, allContent, playbackSpeed,
                 isPlaying, isPaused, currentUtterance, postHighlight,
                 commentHighlight, peVars, voiceVars, expandVars>>

\* the timer of onend fires: readContent(currentIndex)
RcTimerFire ==
  /\ driver = "content"
  /\ rcStep = 0
  /\ timers > 0
  /\ timers' = timers - 1
  /\ IF ReadContentValid(currentIndex)
     THEN RcEnter(currentIndex)
     ELSE UNCHANGED readVars
  /\ UNCHANGED otherVars
  /\ UNCHANGED <<driver, cancelKeepsPaused, synthQueue, synthPaused, stale,
                 contentVars, peVars, voiceVars, expandVars>>

\* the effect of one statement group on the page and the engine
RcEffect(step) ==
  LET item == allContent[rcIndex + 1] IN
  CASE step = "voice" ->
         /\ rcVoice' = GetVoiceForIndex(rcIndex)
         /\ UNCHANGED <<rcNotified, synthQueue, currentUtterance, isPlaying,
                        isPaused, postHighlight, commentHighlight>>
    [] step = "highlight" ->
         /\ postHighlight' = PostHighlightAfterRead(item)
         /\ commentHighlight' = CommentHighlightAfterRead(item)
         /\ rcNotified' = IF item.type \in {"title", "body"}
                          THEN HighlightPostCall
                          ELSE IF item.id # 0
                          THEN HighlightCommentCall(item.id)
                          ELSE rcNotified
         /\ UNCHANGED <<rcVoice, synthQueue, currentUtterance, isPlaying,
                        isPaused>>
    [] step = "speak" ->
         /\ currentUtterance' = "utterance"
         /\ synthQueue' = SynthSpeak(synthQueue,
                                     Utterance(rcIndex, playbackSpeed))
         /\ isPlaying' = TRUE
         /\ isPaused' = FALSE
         /\ UNCHANGED <<rcVoice, rcNotified, postHighlight, commentHighlight>>

\* readContent runs its next statement group; after the last it returns
RcStep ==
  /\ driver = "content"
  /\ rcStep > 0
  /\ RcEffect(ReadContentSteps[rcStep])
  /\ rcStep' = IF rcStep = Len(ReadContentSteps) THEN 0 ELSE rcStep + 1
  /\ UNCHANGED otherVars
  /\ UNCHANGED <<driver, cancelKeepsPaused, synthPaused, stale, timers,
                 allContent, currentIndex, playbackSpeed, rcIndex, peVars,
                 voiceVars, expandVars>>

ReadNext ==
  \/ rcStep = 0 /\ ExtractComments
  \/ RcPlay
  \/ RcNextItem
  \/ RcPrevious
  \/ RcTimerFire
  \/ RcStep
  \/ rcStep = 0 /\ SpeechEnd

ReadSpec == ReadInit /\ [][ReadNext]_vars

\* ------------------------------------ content.ts: expandCommentsToDepth
\* The document is the page's own and moves while a run is suspended.  A run
\* looks at it only when a request starts it and when one of its two settle
\* waits is over, so each step of a run begins with the page as it has become:
\* comment nodes are only added, so their counts are kept; disclosure controls
\* come and go, so each look finds a set of its own.  A control is known by
\* the depth of its nearest ancestor comment.

\* a control outside every comment
NoParent == -1

\* a second control outside every comment
OtherNoParent == -2

\* depths of the comments a disclosure control can hang under
ParentDepths == {NoParent, 0, 1, 2}

\* the depth the loop computes for a control: nearest ancestor comment + 1
EffectiveDepth(p) == IF p <= NoParent THEN 0 ELSE p + 1

\* a control under a comment of depth p needs that comment in the document
DocWellFormed(total, top, controls) ==
  /\ top <= total
  /\ 0 \in controls => top >= 1
  /\ \A p \in controls : p >= 1 => total - top >= 1

Documents ==
  {d \in [total : 0..MaxNodes, top : 0..MaxNodes,
          controls : SUBSET ParentDepths] :
     DocWellFormed(d.total, d.top, d.controls)}

\* the documents the page can have become
DocAfter ==
  {d \in Documents : /\ d.total >= docTotal
                     /\ d.top >= docTopLevel
                     /\ d.total - d.top >= docTotal - docTopLevel}

\* document.querySelectorAll finds the page as doc
Observe(doc) ==
  /\ docTotal' = doc.total
  /\ docTopLevel' = doc.top

\* the loop's limits
MaxIterations == 50
EstimatedCommentsPerButton == 7
BreadthBatchSize == 3
DefaultBatchSize == 2
BreadthDepthLimit == 2
DepthTopLevelLimit == 10

\* the budgets and strategies an extractComments request can carry
Request(md, mtl, mt, s) ==
  [maxDepth |-> md, maxTopLevelComments |-> mtl, maxTotalComments |-> mt,
   expansionStrategy |-> s]

Requests ==
  {Request(3, 1, 23, s) : s \in {"breadth", "depth", "balanced"}}
    \cup {Request(3, 1, mt, "balanced") : mt \in {0, 1}}

\* fault: every strategy admits a control at the target depth itself
AdmitsAtTargetDepth(s, td, mtl, topLevelCount, d) ==
  CASE s = "breadth" ->
         /\ ~(d = 0 /\ topLevelCount >= mtl)
         /\ d <= td
    [] s = "depth" ->
         /\ ~(d = 0 /\ topLevelCount >= Min(DepthTopLevelLimit, mtl))
         /\ d <= td
    [] OTHER ->
         /\ ~(d = 0 /\ topLevelCount >= mtl)
         /\ d <= td

\* the filter of the iteration: is a control of effective depth d admitted
Admits(s, td, mtl, topLevelCount, d) ==
  CASE s = "breadth" ->
         /\ ~(d = 0 /\ topLevelCount >= mtl)
         /\ d <= Min(BreadthDepthLimit, td)
    [] s = "depth" ->
         /\ ~(d = 0 /\ topLevelCount >= Min(DepthTopLevelLimit, mtl))
         /\ d < td
    [] OTHER ->
         /\ ~(d = 0 /\ topLevelCount >= mtl)
         /\ d < td

\* a control with its computed depth, as the loop keeps it
Button(p) == [parent |-> p, depth |-> EffectiveDepth(p)]

RECURSIVE SortByDepth(_, _)
\* the controls of set ps sorted by depth, shallow first or deep first
SortByDepth(ps, deepFirst) ==
  IF ps = {} THEN <<>>
  ELSE LET p == CHOOSE x \in ps :
                  \A y \in ps : IF deepFirst THEN y <= x ELSE x <= y
       IN <<Button(p)>> \o SortByDepth(ps \ {p}, deepFirst)

\* fault: top-level controls pass the filter whatever the top-level count
MoreButtonsKeepsTopLevel(doc, s, td, mtl) ==
  SortByDepth({p \in doc.controls :
                 Admits(s, td, mtl, 0, EffectiveDepth(p))},
              s = "depth")

\* moreButtons: the admitted controls in the strategy's order
MoreButtons(doc, s, td, mtl) ==
  SortByDepth({p \in doc.controls :
                 Admits(s, td, mtl, doc.top, EffectiveDepth(p))},
              s = "depth")

\* hasDepthButtons: some control lies below the top level
HasDepthButtons(doc) == \E p \in doc.controls : EffectiveDepth(p) > 0

\* batchSize
BatchSize(s) == IF s = "breadth" THEN BreadthBatchSize ELSE DefaultBatchSize

\* fault: the buttons are taken from the end of the ordered list
ButtonsToClickFromEnd(doc, s, td, mtl, mt) ==
  LET moreButtons == MoreButtons(doc, s, td, mtl)
      maxButtonsToClick ==
        Max(1, (mt - doc.total) \div EstimatedCommentsPerButton)
      n == Min(Len(moreButtons), maxButtonsToClick)
  IN SubSeq(moreButtons, Len(moreButtons) - n + 1, Len(moreButtons))

\* fault: every admitted control is taken, whatever budget remains
ButtonsToClickAll(doc, s, td, mtl, mt) == MoreButtons(doc, s, td, mtl)

\* buttonsToClick: the prefix of moreButtons the remaining budget allows
ButtonsToClick(doc, s, td, mtl, mt) ==
  LET moreButtons == MoreButtons(doc, s, td, mtl)
      maxButtonsToClick ==
        Max(1, (mt - doc.total) \div EstimatedCommentsPerButton)
  IN SubSeq(moreButtons, 1, Min(Len(moreButtons), maxButtonsToClick))

\* the batch of buttons q that starts at index k (counted from 0)
Batch(q, k, s) == SubSeq(q, k + 1, Min(Len(q), k + BatchSize(s)))

\* fault: the top-level cap ends the run whatever controls lie deeper
IterationRunsCapEnds(doc, n, stop, s, td, mtl, mt) ==
  /\ n < MaxIterations /\ ~stop
  /\ ~(doc.total >= mt)
  /\ ~(doc.top >= mtl /\ s # "depth")
  /\ Len(MoreButtons(doc, s, td, mtl)) # 0
  /\ ~(mt - doc.total <= 0)

\* fault: a pass ends when the budget left is below one button's estimate
IterationRunsNeedsFullButton(doc, n, stop, s, td, mtl, mt) ==
  /\ n < MaxIterations /\ ~stop
  /\ ~(doc.total >= mt)
  /\ ~(doc.top >= mtl /\ s # "depth" /\ ~HasDepthButtons(doc))
  /\ Len(MoreButtons(doc, s, td, mtl)) # 0
  /\ ~(mt - doc.total < EstimatedCommentsPerButton)

\* the tests at the top of an iteration all let the loop body run
IterationRuns(doc, n, stop, s, td, mtl, mt) ==
  /\ n < MaxIterations /\ ~stop
  /\ ~(doc.total >= mt)
  /\ ~(doc.top >= mtl /\ s # "depth" /\ ~HasDepthButtons(doc))
  /\ Len(MoreButtons(doc, s, td, mtl)) # 0
  /\ ~(mt - doc.total <= 0)

\* fault: the run removes the nodes above the budget before it returns
ExpandReturnTrims(doc) ==
  /\ xpPc' = "returned"
  /\ isExtracting' = FALSE
  /\ docTotal' = Min(doc.total, maxTotal)
  /\ docTopLevel' = Min(doc.top, docTotal')
  /\ extractionProgress' = docTotal'
  /\ buttonsToClick' = <<>>
  /\ i' = 0

\* fault: the run returns with isExtracting still set
ExpandReturnKeepsFlag(doc) ==
  /\ xpPc' = "returned"
  /\ isExtracting' = TRUE
  /\ Observe(doc)
  /\ extractionProgress' = doc.total
  /\ buttonsToClick' = <<>>
  /\ i' = 0

\* the loop is left: final count, isExtracting = false, return
ExpandReturn(doc) ==
  /\ xpPc' = "returned"
  /\ isExtracting' = FALSE
  /\ Observe(doc)
  /\ extractionProgress' = doc.total
  /\ buttonsToClick' = <<>>
  /\ i' = 0

\* fault: the while condition does not test the iteration count
LoopTopNoCeiling(doc, n, stop, s, td, mtl, mt) ==
  /\ iterations' = Min(n, MaxIterations + 1)
  /\ IF IterationRuns(doc, 0, stop, s, td, mtl, mt)
     THEN /\ xpPc' = "batchWait"
          /\ isExtracting' = TRUE
          /\ Observe(doc)
          /\ buttonsToClick' = ButtonsToClick(doc, s, td, mtl, mt)
          /\ i' = 0
          /\ extractionProgress' = doc.total
     ELSE ExpandReturn(doc)

\* the while loop from its condition, with iterations = n and the page found
\* as doc: either the first batch of the iteration is invoked and the run
\* waits, or the run returns
LoopTop(doc, n, stop, s, td, mtl, mt) ==
  /\ iterations' = n
  /\ IF IterationRuns(doc, n, stop, s, td, mtl, mt)
     THEN /\ xpPc' = "batchWait"
          /\ Observe(doc)
          /\ buttonsToClick' = ButtonsToClick(doc, s, td, mtl, mt)
          /\ i' = 0
          /\ extractionProgress' = doc.total
     ELSE ExpandReturn(doc)

\* case 'extractComments' up to the first wait of expandCommentsToDepth, on
\* a page that the first look finds as doc
ExpandStartOn(req, doc) ==
  /\ driver = "content"
  /\ xpPc \in {"none", "returned"}
  /\ targetDepth' = req.maxDepth
  /\ maxTopLevel' = req.maxTopLevelComments
  /\ maxTotal' = req.maxTotalComments
  /\ strategy' = req.expansionStrategy
  /\ shouldStopExtraction' = FALSE
  /\ stopRequested' = FALSE
  /\ IF doc.total >= req.maxTotalComments
     THEN /\ isExtracting' = FALSE
          /\ xpPc' = "returned"
          /\ Observe(doc)
          /\ extractionProgress' = doc.total
          /\ UNCHANGED <<iterations, buttonsToClick, i>>
     ELSE /\ LoopTop(doc, 0, FALSE, req.expansionStrategy, req.maxDepth,
                     req.maxTopLevelComments, req.maxTotalComments)
          /\ IF xpPc' = "returned" THEN TRUE ELSE isExtracting' = TRUE
  /\ UNCHANGED <<driver, cancelKeepsPaused, synthVars, contentVars, peVars,
                 voiceVars, readVars, otherRuns>>

\* fault: the run enters the loop without the check against maxTotal
ExpandStartNoCheck(req) ==
  /\ driver = "content"
  /\ xpPc \in {"none", "returned"}
  /\ targetDepth' = req.maxDepth
  /\ maxTopLevel' = req.maxTopLevelComments
  /\ maxTotal' = req.maxTotalComments
  /\ strategy' = req.expansionStrategy
  /\ shouldStopExtraction' = FALSE
  /\ stopRequested' = FALSE
  /\ \E doc \in DocAfter :
       /\ Observe(doc)
       /\ isExtracting' = TRUE
       /\ xpPc' = "batchWait"
       /\ buttonsToClick' = SortByDepth(doc.controls, FALSE)
       /\ i' = 0
       /\ iterations' = 0
       /\ extractionProgress' = doc.total
  /\ UNCHANGED otherVars
  /\ UNCHANGED <<driver, cancelKeepsPaused, synthVars, contentVars, peVars,
                 voiceVars, readVars, otherRuns>>

\* case 'extractComments' up to the first wait of expandCommentsToDepth
ExpandStart(req) ==
  /\ \E doc \in DocAfter : ExpandStartOn(req, doc)
  /\ UNCHANGED otherVars

\* fault: the batch loop does not test the stop signal
ExpandResumeBatchDeaf ==
  /\ driver = "content"
  /\ xpPc = "batchWait"
  /\ \E doc \in DocAfter :
       LET k == i + BatchSize(strategy) IN
       /\ Observe(doc)
       /\ IF k < Len(buttonsToClick) /\ doc.total < maxTotal
          THEN /\ i' = k
               /\ extractionProgress' = doc.total
               /\ UNCHANGED <<xpPc, buttonsToClick>>
          ELSE /\ xpPc' = "iterWait"
               /\ buttonsToClick' = <<>>
               /\ i' = 0
               /\ extractionProgress' =
                    IF k < Len(buttonsToClick) THEN doc.total
                    ELSE extractionProgress
  /\ UNCHANGED otherVars
  /\ UNCHANGED <<driver, cancelKeepsPaused, synthVars, contentVars, peVars,
                 voiceVars, readVars, isExtracting, shouldStopExtraction,
                 targetDepth, maxTopLevel, maxTotal, strategy, iterations,
                 otherRuns, stopRequested>>

\* fault: the batch loop does not count the comments again
ExpandResumeBatchOnNoRecheck(doc) ==
  /\ driver = "content"
  /\ xpPc = "batchWait"
  /\ LET k == i + BatchSize(strategy) IN
     /\ Observe(doc)
     /\ IF k < Len(buttonsToClick) /\ ~shouldStopExtraction
        THEN /\ i' = k
             /\ extractionProgress' = doc.total
             /\ UNCHANGED <<xpPc, buttonsToClick>>
        ELSE /\ xpPc' = "iterWait"
             /\ buttonsToClick' = <<>>
             /\ i' = 0
             /\ UNCHANGED extractionProgress
  /\ UNCHANGED otherVars
  /\ UNCHANGED <<driver, cancelKeepsPaused, synthVars, contentVars, peVars,
                 voiceVars, readVars, isExtracting, shouldStopExtraction,
                 targetDepth, maxTopLevel, maxTotal, strategy, iterations,
                 otherRuns, stopRequested>>

\* the 1000 ms wait after a batch is over and the page is found as doc: the
\* next batch is invoked, or the batch loop is left for the 800 ms wait
ExpandResumeBatchOn(doc) ==
  /\ driver = "content"
  /\ xpPc = "batchWait"
  /\ LET k == i + BatchSize(strategy) IN
     /\ Observe(doc)
     /\ IF k < Len(buttonsToClick) /\ ~shouldStopExtraction
             /\ doc.total < maxTotal
        THEN /\ i' = k
             /\ extractionProgress' = doc.total
             /\ UNCHANGED <<xpPc, buttonsToClick>>
        ELSE /\ xpPc' = "iterWait"
             /\ buttonsToClick' = <<>>
             /\ i' = 0
             /\ extractionProgress' =
                  IF k < Len(buttonsToClick) /\ ~shouldStopExtraction
                  THEN doc.total ELSE extractionProgress
  /\ UNCHANGED otherVars
  /\ UNCHANGED <<driver, cancelKeepsPaused, synthVars, contentVars, peVars,
                 voiceVars, readVars, isExtracting, shouldStopExtraction,
                 targetDepth, maxTopLevel, maxTotal, strategy, iterations,
                 otherRuns, stopRequested>>

\* the batch wait is over on a page that has become one of DocAfter
ExpandResumeBatch == \E doc \in DocAfter : ExpandResumeBatchOn(doc)

\* the 800 ms wait is over and the page is found as doc: iterations++ and
\* the loop condition
ExpandResumeIterOn(doc) ==
  /\ driver = "content"
  /\ xpPc = "iterWait"
  /\ LoopTop(doc, iterations + 1, shouldStopExtraction, strategy,
             targetDepth, maxTopLevel, maxTotal)
  /\ IF xpPc' = "returned" THEN TRUE ELSE UNCHANGED isExtracting
  /\ UNCHANGED <<driver, cancelKeepsPaused, synthVars, contentVars, peVars,
                 voiceVars, readVars, shouldStopExtraction, targetDepth,
                 maxTopLevel, maxTotal, strategy, otherRuns, stopRequested>>

\* the iteration wait is over on a page that has become one of DocAfter
ExpandResumeIter ==
  /\ \E doc \in DocAfter : ExpandResumeIterOn(doc)
  /\ UNCHANGED otherVars

\* case 'stopExtraction'
StopExtraction ==
  /\ driver = "content"
  /\ shouldStopExtraction' = TRUE
  /\ stopRequested' = (xpPc \in {"batchWait", "iterWait"})
  /\ UNCHANGED otherVars
  /\ UNCHANGED <<driver, cancelKeepsPaused, synthVars, contentVars, peVars,
                 voiceVars, readVars, docVars, isExtracting,
                 extractionProgress, runVars, otherRuns>>

\* the content script of a page that is still empty
ExpandInit ==
  /\ Init
  /\ driver = "content"
  /\ cancelKeepsPaused = FALSE

ExpandNext ==
  \/ \E req \in Requests : ExpandStart(req)
  \/ ExpandResumeBatch
  \/ ExpandResumeIter
  \/ StopExtraction

ExpandSpec == ExpandInit /\ [][ExpandNext]_vars

\* a settle wait is a browser timer: once set it ends
FairExpandSpec ==
  ExpandSpec /\ WF_vars(ExpandResumeBatch) /\ WF_vars(ExpandResumeIter)

\* ------------------------------ content.ts: the first look of a run
\* What an iteration invokes depends on the page it finds and on the
\* request alone.  The page is drawn at the start and the first iteration of
\* a run is applied to it; pages with ten and eleven top-level comments are
\* among them for the fixed limit of the depth strategy, pages with thirty
\* comments for the largest budget, and pages with two controls outside
\* every comment.
LookCounts ==
  (0..MaxNodes) \cup {DepthTopLevelLimit, DepthTopLevelLimit + 1, 30}

LookControls == ParentDepths \cup {OtherNoParent}

LookDocuments ==
  {d \in [total : LookCounts, top : LookCounts,
          controls : SUBSET LookControls] :
     DocWellFormed(d.total, d.top, d.controls)}

LookRequests ==
  {Request(md, mtl, mt, s) :
     md \in {1, 3}, mtl \in {1, DepthTopLevelLimit + 2}, mt \in {3, 9, 30},
     s \in {"breadth", "depth", "balanced"}}

LookInit ==
  /\ PlaybackIdle
  /\ NoExtractionYet
  /\ callArg \in LookDocuments
  /\ callResult = NoValue

\* an extractComments request starts the first run on the page
LookStart(req) ==
  /\ xpPc = "none"
  /\ ExpandStartOn(req, callArg)
  /\ UNCHANGED otherVars

LookNext == \E req \in LookRequests : LookStart(req)

LookSpec == LookInit /\ [][LookNext]_vars

\* ----------------------------- content.ts: the batches of an iteration
\* The first iteration of a run on the drawn page, followed through its
\* batch waits on pages that may have grown up to the largest budget.  The
\* batch loop counts the comments and does not look for controls, so the
\* pages it finds are told apart by their counts alone.
LookDocAfter ==
  {d \in [total : LookCounts, top : LookCounts, controls : {{}}] :
     /\ DocWellFormed(d.total, d.top, d.controls)
     /\ d.total >= docTotal
     /\ d.top >= docTopLevel
     /\ d.total - d.top >= docTotal - docTopLevel}

\* a batch wait of the iteration is over
BatchResume == \E doc \in LookDocAfter : ExpandResumeBatchOn(doc)

BatchNext ==
  \/ LookNext
  \/ BatchResume
  \/ StopExtraction

BatchSpec == LookInit /\ [][BatchNext]_vars

\* ------------------------- content.ts: a run with the pages it finds
\* One run from its request to its return; the page each pass of the loop
\* finds at its top is kept in callArg.
IterInit ==
  /\ PlaybackIdle
  /\ NoExtractionYet
  /\ callArg \in Documents
  /\ callResult = NoValue

\* the iteration wait is over and the loop looks at the page again
IterLook ==
  /\ \E doc \in DocAfter : ExpandResumeIterOn(doc) /\ callArg' = doc
  /\ UNCHANGED <<extractVars, callResult, cleanedUp, stopIssued>>

IterNext ==
  \/ \E req \in Requests : LookStart(req)
  \/ ExpandResumeBatch
  \/ IterLook
  \/ StopExtraction

IterSpec == IterInit /\ [][IterNext]_vars

\* --------------------------- content.ts: a second extractComments request
\* The message listener starts a run for every extractComments request, also
\* while an earlier run is suspended.  The run above stays the one followed
\* step by step; of a later run only what it writes to the shared flags is
\* kept: its entry and its return.

\* later runs followed at one time
MaxOtherRuns == 1

\* expandCommentsToDepth is entered for a later request
OtherRunStart(req) ==
  /\ driver = "content"
  /\ xpPc \in {"batchWait", "iterWait"}
  /\ otherRuns < MaxOtherRuns
  /\ shouldStopExtraction' = FALSE
  /\ \E doc \in DocAfter :
       /\ Observe(doc)
       /\ extractionProgress' = doc.total
       /\ IF doc.total >= req.maxTotalComments
          THEN isExtracting' = FALSE /\ otherRuns' = otherRuns
          ELSE isExtracting' = TRUE /\ otherRuns' = otherRuns + 1
  /\ UNCHANGED otherVars
  /\ UNCHANGED <<driver, cancelKeepsPaused, synthVars, contentVars, peVars,
                 voiceVars, readVars, runVars, stopRequested>>

\* a later run leaves its loop and returns
OtherRunReturn ==
  /\ driver = "content"
  /\ otherRuns > 0
  /\ otherRuns' = otherRuns - 1
  /\ \E doc \in DocAfter :
       /\ Observe(doc)
       /\ extractionProgress' = doc.total
  /\ isExtracting' = FALSE
  /\ UNCHANGED otherVars
  /\ UNCHANGED <<driver, cancelKeepsPaused, synthVars, contentVars, peVars,
                 voiceVars, readVars, shouldStopExtraction, runVars,
                 stopRequested>>

OverlapNext ==
  \/ ExpandNext
  \/ \E req \in Requests : OtherRunStart(req)
  \/ OtherRunReturn

OverlapSpec == ExpandInit /\ [][OverlapNext]_vars

\* ------------------------------------- content.ts: the voice of an item
\* getVoiceForIndex reads three module variables and its argument.  The pool
\* is any list of distinct voices, the allowlist any set of names, one of
\* them the name of no installed voice.

VoicePools ==
  {s \in UNION {[1..n -> 1..MaxVoices] : n \in 0..MaxVoices} :
     \A a, b \in DOMAIN s : a # b => s[a] # s[b]}

Allowlists == SUBSET (1..(MaxVoices + 1))

VoiceInit ==
  /\ driver = "content"
  /\ cancelKeepsPaused = FALSE
  /\ synthQueue = <<>>
  /\ synthPaused = FALSE
  /\ stale = 0
  /\ timers = 0
  /\ allContent = <<>>
  /\ currentIndex = 0
  /\ playbackSpeed = 10
  /\ isPlaying = FALSE
  /\ isPaused = FALSE
  /\ currentUtterance = "null"
  /\ postHighlight = FALSE
  /\ commentHighlight = 0
  /\ peComments = <<>>
  /\ peCurrentIndex = 0
  /\ pePlaybackSpeed = 10
  /\ peUtterance = "null"
  /\ filteredVoices \in VoicePools
  /\ selectedVoiceNames \in Allowlists
  /\ useUniqueVoices \in BOOLEAN
  /\ rcStep = 0
  /\ rcIndex = 0
  /\ rcVoice = Unresolved
  /\ rcNotified = NoCall
  /\ docTotal = 0
  /\ docTopLevel = 0
  /\ NoRunYet
  /\ cleanedUp = FALSE
  /\ stopIssued = FALSE
  /\ NoExtractionYet
  /\ NoCallYet

\* const voice = getVoiceForIndex(index), for the item at place index
VoiceFor(index) ==
  /\ driver = "content"
  /\ rcIndex' = index
  /\ rcVoice' = GetVoiceForIndex(index)
  /\ UNCHANGED otherVars
  /\ UNCHANGED <<driver, cancelKeepsPaused, synthVars, contentVars, peVars,
                 voiceVars, rcStep, rcNotified, expandVars>>

\* case 'toggleUniqueVoices'
ToggleUniqueVoices(enabled) ==
  /\ driver = "content"
  /\ useUniqueVoices' = enabled
  /\ UNCHANGED otherVars
  /\ UNCHANGED <<driver, cancelKeepsPaused, synthVars, contentVars, peVars,
                 filteredVoices, selectedVoiceNames, readVars, expandVars>>

VoiceNext ==
  \/ \E index \in 0..MaxIndex : VoiceFor(index)
  \/ \E enabled \in BOOLEAN : ToggleUniqueVoices(enabled)

VoiceSpec == VoiceInit /\ [][VoiceNext]_vars

\* ------------------------------------- content.ts: shouldFilterAuthor
\* A name is the sequence of its characters.  null and the empty string,
\* which the function does not tell apart (!author), are the empty sequence.
NullAuthor == <<>>

\* String.prototype.toLowerCase on the capitals that occur
LowerOf ==
  [A |-> "a", B |-> "b", D |-> "d", J |-> "j", M |-> "m", O |-> "o",
   R |-> "r", S |-> "s", T |-> "t"]

ToLowerCase(s) ==
  [k \in 1..Len(s) |-> IF s[k] \in DOMAIN LowerOf THEN LowerOf[s[k]]
                       ELSE s[k]]

\* String.prototype.includes, startsWith, endsWith
Includes(s, sub) ==
  \E k \in 0..(Len(s) - Len(sub)) : SubSeq(s, k + 1, k + Len(sub)) = sub

StartsWith(s, pre) == Len(s) >= Len(pre) /\ SubSeq(s, 1, Len(pre)) = pre

EndsWith(s, suf) ==
  Len(s) >= Len(suf) /\ SubSeq(s, Len(s) - Len(suf) + 1, Len(s)) = suf

FILTERED_AUTHORS ==
  {<<"a", "u", "t", "o", "m", "o", "d", "e", "r", "a", "t", "o", "r">>,
   <<"a", "u", "t", "o", "m", "o", "d">>,
   <<"m", "o", "d", "e", "r", "a", "t", "o", "r">>,
   <<"b", "o", "t">>,
   <<"m", "o", "d", "b", "o", "t">>,
   <<"r", "e", "d", "d", "i", "t">>}

\* fault: the name is compared as it is written
ShouldFilterAuthorCaseSensitive(author) ==
  IF author = NullAuthor THEN FALSE
  ELSE LET lowerAuthor == author
       IN IF lowerAuthor \in FILTERED_AUTHORS THEN TRUE
          ELSE IF Includes(lowerAuthor, <<"b", "o", "t">>) THEN TRUE
          ELSE IF EndsWith(lowerAuthor, <<"b", "o", "t">>)
                    \/ EndsWith(lowerAuthor, <<"_", "b", "o", "t">>)
               THEN TRUE
          ELSE IF StartsWith(lowerAuthor, <<"m", "o", "d">>) THEN TRUE
          ELSE FALSE

\* shouldFilterAuthor(author)
ShouldFilterAuthor(author) ==
  IF author = NullAuthor THEN FALSE
  ELSE LET lowerAuthor == ToLowerCase(author)
       IN IF lowerAuthor \in FILTERED_AUTHORS THEN TRUE
          ELSE IF Includes(lowerAuthor, <<"b", "o", "t">>) THEN TRUE
          ELSE IF EndsWith(lowerAuthor, <<"b", "o", "t">>)
                    \/ EndsWith(lowerAuthor, <<"_", "b", "o", "t">>)
               THEN TRUE
          ELSE IF StartsWith(lowerAuthor, <<"m", "o", "d">>) THEN TRUE
          ELSE FALSE

\* the names the function is applied to: every name of up to MaxNameLen
\* characters over a small alphabet, and some names written out
NameChars == {"b", "o", "t", "m", "d", "B", "O", "M", "x"}

AutoModerator ==
  <<"A", "u", "t", "o", "M", "o", "d", "e", "r", "a", "t", "o", "r">>
SomeBot_99 == <<"S", "o", "m", "e", "B", "o", "t", "_", "9", "9">>
Moderator_Jane ==
  <<"M", "o", "d", "e", "r", "a", "t", "o", "r", "_", "J", "a", "n", "e">>
regular_user ==
  <<"r", "e", "g", "u", "l", "a", "r", "_", "u", "s", "e", "r">>

NamedAuthors ==
  {AutoModerator, SomeBot_99, Moderator_Jane, regular_user,
   <<"a", "u", "t", "o", "m", "o", "d">>,
   <<"a", "u", "t", "o", "m", "o", "d", "s">>,
   <<"R", "e", "d", "d", "i", "t">>,
   <<"r", "e", "d", "d", "i", "t", "o", "r">>,
   <<"t", "o", "m", "o", "d">>}

AuthorInputs ==
  UNION {[1..n -> NameChars] : n \in 0..MaxNameLen} \cup NamedAuthors

FilterInit ==
  /\ PlaybackIdle
  /\ NoExtractionYet
  /\ callArg \in AuthorInputs
  /\ callResult = NoValue

\* shouldFilterAuthor is applied to the name
FilterAuthor ==
  /\ ~callResult.done
  /\ callResult' = Returned(ShouldFilterAuthor(callArg))
  /\ UNCHANGED <<driver, cancelKeepsPaused, synthVars, contentVars, peVars,
                 voiceVars, readVars, expandVars, cleanedUp,
                 stopIssued, extractVars, callArg>>

FilterNext == FilterAuthor

FilterSpec == FilterInit /\ [][FilterNext]_vars

\* ------------------------------------- flattenComments.ts: flattenComments
\* the depth attributes the comments of an input array carry
Depths == 0..2

\* the arrays the function is applied to; a comment is known by its place in
\* the input and carries its depth
FlattenInputs ==
  UNION {[1..n -> Depths] : n \in 0..MaxFlatten}

CommentAt(input, k) == [id |-> k, depth |-> input[k]]

RECURSIVE FlattenFrom(_, _, _)
\* comments.forEach((comment) => flattened.push(comment)), from place k on
FlattenFrom(input, k, flattened) ==
  IF k > Len(input) THEN flattened
  ELSE FlattenFrom(input, k + 1, Append(flattened, CommentAt(input, k)))

\* fault: each comment is put at the front of the output
FlattenCommentsUnshift(input) ==
  [k \in 1..Len(input) |-> CommentAt(input, Len(input) + 1 - k)]

\* flattenComments(comments)
FlattenComments(input) == FlattenFrom(input, 1, <<>>)

FlattenInit ==
  /\ PlaybackIdle
  /\ NoExtractionYet
  /\ callArg \in FlattenInputs
  /\ callResult = NoValue

\* flattenComments is applied to the array
Flatten ==
  /\ ~callResult.done
  /\ callResult' = Returned(FlattenComments(callArg))
  /\ UNCHANGED <<driver, cancelKeepsPaused, synthVars, contentVars, peVars,
                 voiceVars, readVars, expandVars, cleanedUp,
                 stopIssued, extractVars, callArg>>

FlattenNext == Flatten

FlattenSpec == FlattenInit /\ [][FlattenNext]_vars

\* --------------------------------- content.ts: the extraction pass
\* A text is the sequence of its blank-separated pieces, each of one kind:
\* a word, a markdown link [word](url), a plain or www URL, a subreddit
\* link, a user mention.
RECURSIVE RemoveLinks(_)
\* removeLinks(text): the label of a markdown link stays, the other links
\* go; blanks are collapsed and trimmed away with them
RemoveLinks(text) ==
  IF text = <<>> THEN <<>>
  ELSE LET piece == Head(text)
           rest == RemoveLinks(Tail(text))
       IN IF piece = "mdlink" THEN <<"word">> \o rest
          ELSE IF piece \in {"url", "www", "sub", "user"} THEN rest
          ELSE <<piece>> \o rest

\* the shreddit-comment nodes a page can hold: author attribute, thingid
\* attribute present or not, text of the content element (none: <<>>)
NodeKinds ==
  {[author |-> regular_user, thing |-> TRUE, content |-> <<"word", "url">>],
   [author |-> NullAuthor, thing |-> FALSE, content |-> <<"mdlink">>],
   [author |-> AutoModerator, thing |-> TRUE, content |-> <<"word">>],
   [author |-> regular_user, thing |-> TRUE, content |-> <<"user", "url">>],
   [author |-> regular_user, thing |-> FALSE, content |-> <<>>]}

\* the texts a post title and a post body can have
PostTexts == {<<>>, <<"word", "url">>, <<"sub">>}

Pages ==
  {[title |-> t, body |-> b, nodes |-> ns] :
     t \in PostTexts, b \in PostTexts,
     ns \in UNION {[1..n -> NodeKinds] : n \in 0..MaxNodes}}

\* the thingid attribute of the node at place k, 0 when it has none
ThingId(page, k) == IF page.nodes[k].thing THEN k ELSE 0

\* `comment-${n}`, kept apart from every thing id
FallbackId(n) == -(n + 1)

RECURSIVE ExtractFrom(_, _, _)
\* commentElements.forEach(...) from the node at place k on
ExtractFrom(page, k, extractedComments) ==
  IF k > Len(page.nodes) THEN extractedComments
  ELSE LET thingId == ThingId(page, k)
           id == IF thingId # 0 THEN thingId
                 ELSE FallbackId(Len(extractedComments))
           author == page.nodes[k].author
           text == RemoveLinks(page.nodes[k].content)
       IN IF ShouldFilterAuthor(author)
          THEN ExtractFrom(page, k + 1, extractedComments)
          ELSE IF text = <<>>
          THEN ExtractFrom(page, k + 1, extractedComments)
          ELSE ExtractFrom(page, k + 1,
                           Append(extractedComments,
                                  [id |-> id, text |-> text,
                                   author |-> author, element |-> k]))

\* fault: a node whose sanitized text is empty is recorded all the same
ExtractPassKeepsEmpty(page) ==
  LET kept == SelectSeq([k \in 1..Len(page.nodes) |-> k],
                        LAMBDA k : ~ShouldFilterAuthor(page.nodes[k].author))
  IN [j \in 1..Len(kept) |->
        [id |-> IF ThingId(page, kept[j]) # 0 THEN ThingId(page, kept[j])
                ELSE FallbackId(j - 1),
         text |-> RemoveLinks(page.nodes[kept[j]].content),
         author |-> page.nodes[kept[j]].author,
         element |-> kept[j]]]

\* extractComments()
ExtractPass(page) == ExtractFrom(page, 1, <<>>)

\* extractPostContent()
ExtractPostContent(page) ==
  [title |-> RemoveLinks(page.title), body |-> RemoveLinks(page.body)]

\* the ids of the records, as the queue items carry them
RecordIds(records) == [k \in 1..Len(records) |-> records[k].id]

SuccessResponse(records, queue, postContent) ==
  [kind |-> "success", success |-> TRUE, count |-> Len(records),
   totalItems |-> Len(queue), hasTitle |-> postContent.title # <<>>,
   hasBody |-> postContent.body # <<>>]

ErrorResponse ==
  [kind |-> "error", success |-> FALSE, count |-> -1, totalItems |-> -1,
   hasTitle |-> FALSE, hasBody |-> FALSE]

\* The handler of an extractComments request runs up to its await, is
\* suspended while the expansion run goes on, and continues when the run has
\* returned or thrown.  The run itself is followed step by step by the
\* expansion actions above; here it is the time between the two halves of
\* the handler, and the variables it writes are left as they stand.
ExtractInit ==
  /\ PlaybackIdle
  /\ document \in Pages
  /\ comments = <<>>
  /\ pendingRequests = 0
  /\ responsesSent = 0
  /\ lastResponse = NoResponse
  /\ NoCallYet

\* case 'extractComments' up to await expandCommentsToDepth(...)
ExtractRequest ==
  /\ driver = "content"
  /\ pendingRequests + responsesSent < MaxRequests
  /\ pendingRequests' = pendingRequests + 1
  /\ UNCHANGED <<driver, cancelKeepsPaused, synthVars, contentVars, peVars,
                 voiceVars, readVars, expandVars, cleanedUp,
                 stopIssued, document, comments,
                 responsesSent, lastResponse, callVars>>

\* fault: an exception leaves the request without a response
ExtractResumeUncaught(raised) ==
  /\ driver = "content"
  /\ pendingRequests > 0
  /\ pendingRequests' = pendingRequests - 1
  /\ IF raised
     THEN UNCHANGED <<comments, currentIndex, allContent, lastResponse,
                      responsesSent>>
     ELSE LET postContent == ExtractPostContent(document)
              records == ExtractPass(document)
              queue == BuildAllContent(postContent.title # <<>>,
                                       postContent.body # <<>>,
                                       RecordIds(records))
          IN /\ comments' = records
             /\ currentIndex' = 0
             /\ allContent' = queue
             /\ lastResponse' = SuccessResponse(records, queue, postContent)
             /\ responsesSent' = responsesSent + 1
  /\ UNCHANGED <<driver, cancelKeepsPaused, synthVars, playbackSpeed,
                 isPlaying, isPaused, currentUtterance, postHighlight,
                 commentHighlight, peVars, voiceVars, readVars, expandVars, cleanedUp,
                 stopIssued,
                 document, callVars>>

\* the rest of the handler: the run has returned, or something inside the
\* try block has thrown (raised)
ExtractResume(raised) ==
  /\ driver = "content"
  /\ pendingRequests > 0
  /\ pendingRequests' = pendingRequests - 1
  /\ responsesSent' = responsesSent + 1
  /\ IF raised
     THEN /\ lastResponse' = ErrorResponse
          /\ UNCHANGED <<comments, currentIndex, allContent>>
     ELSE LET postContent == ExtractPostContent(document)
              records == ExtractPass(document)
              queue == BuildAllContent(postContent.title # <<>>,
                                       postContent.body # <<>>,
                                       RecordIds(records))
          IN /\ comments' = records
             /\ currentIndex' = 0
             /\ allContent' = queue
             /\ lastResponse' = SuccessResponse(records, queue, postContent)
  /\ UNCHANGED <<driver, cancelKeepsPaused, synthVars, playbackSpeed,
                 isPlaying, isPaused, currentUtterance, postHighlight,
                 commentHighlight, peVars, voiceVars, readVars, expandVars, cleanedUp,
                 stopIssued,
                 document, callVars>>

ExtractNext ==
  \/ ExtractRequest
  \/ \E raised \in BOOLEAN : ExtractResume(raised)

ExtractSpec == ExtractInit /\ [][ExtractNext]_vars

\* pages with a title, a body that is one link, and comment nodes that
\* either survive, are by a filtered author, or have no text left
AnswerPages ==
  {page \in Pages :
     /\ page.title = <<"word", "url">>
     /\ page.body = <<"sub">>
     /\ \A k \in 1..Len(page.nodes) :
          /\ page.nodes[k].thing
          /\ page.nodes[k].content # <<"word">> =>
               page.nodes[k].author = regular_user}

AnswerInit ==
  /\ PlaybackIdle
  /\ document \in AnswerPages
  /\ comments = <<>>
  /\ pendingRequests = 0
  /\ responsesSent = 0
  /\ lastResponse = NoResponse
  /\ NoCallYet

\* every expansion run returns or throws (the run has a ceiling of 50
\* iterations and each of its waits is a timer)
FairExtractSpec ==
  /\ AnswerInit
  /\ [][ExtractNext]_vars
  /\ WF_vars(\E raised \in BOOLEAN : ExtractResume(raised))

\* ------------------------------------------------------------ properties
\* the item an utterance in the engine queue speaks
InFlight == {synthQueue[k].idx : k \in 1..Len(synthQueue)}

\* C1: a completion callback that arrives after stop()/next()/previous()
\* cancelled its utterance changes neither the cursor nor the engine queue
\* and schedules nothing.
C1_LateCompletionIgnored ==
  [][(LateEnd \/ PeLateEnd) =>
       /\ currentIndex' = currentIndex
       /\ peCurrentIndex' = peCurrentIndex
       /\ synthQueue' = synthQueue
       /\ timers' = timers]_vars

\* C2: at most one utterance is submitted to the speech engine and not yet
\* finished or cancelled.
C2_AtMostOneInFlight == Len(synthQueue) <= 1

\* C3: when the utterance of item i < n-1 completes naturally, the cursor
\* becomes i+1 and a timer is set; and while a timer is pending with the
\* engine idle, an utterance for the item at the cursor is eventually
\* submitted (or the queue is replaced by one without that item).
AutoAdvanceStep ==
  /\ (SpeechEnd /\ currentIndex < Len(allContent) - 1) =>
       /\ currentIndex' = currentIndex + 1
       /\ timers' = timers + 1
       /\ synthQueue' = Tail(synthQueue)
  /\ (PeSpeechEnd /\ peCurrentIndex < Len(peComments) - 1) =>
       /\ peCurrentIndex' = peCurrentIndex + 1
       /\ timers' = timers + 1
       /\ synthQueue' = Tail(synthQueue)

AutoAdvancePending ==
  /\ timers > 0
  /\ ~synthSpeaking
  /\ \/ driver = "content" /\ ReadContentValid(currentIndex)
     \/ driver = "engine" /\ PeReadCommentValid(peCurrentIndex)

AutoAdvanceDone ==
  /\ (driver = "content" /\ ReadContentValid(currentIndex))
       => currentIndex \in InFlight
  /\ (driver = "engine" /\ PeReadCommentValid(peCurrentIndex))
       => peCurrentIndex \in InFlight

C3_AutoAdvance ==
  /\ [][AutoAdvanceStep]_vars
  /\ AutoAdvancePending ~> AutoAdvanceDone

C3_Witness ==
  /\ driver = "content"
  /\ Len(allContent) = 3
  /\ currentIndex = 1
  /\ timers = 1
  /\ stale = 0
  /\ isPlaying
  /\ ~synthSpeaking

\* C4: when the utterance of the last item completes naturally the sequencer
\* is Finished: not playing, nothing in flight, highlight cleared, cursor not
\* advanced and no further item scheduled.
C4_LastItemFinishes ==
  [][(SpeechEnd /\ currentIndex = Len(allContent) - 1
        /\ Head(synthQueue).idx = currentIndex) =>
       /\ isPlaying' = FALSE
       /\ synthQueue' = <<>>
       /\ postHighlight' = FALSE
       /\ commentHighlight' = 0
       /\ currentIndex' = currentIndex
       /\ timers' = timers]_vars

C7_NextAtLastStops ==
  [][/\ (NextItem /\ currentIndex = Len(allContent) - 1) =>
          /\ currentIndex' = currentIndex
          /\ synthQueue' = <<>>
          /\ isPlaying' = FALSE
     /\ (PeNext /\ peCurrentIndex = Len(peComments) - 1) =>
          /\ peCurrentIndex' = peCurrentIndex
          /\ synthQueue' = <<>>]_vars

\* C8: previous() on a non-empty queue moves the cursor to max(0, i-1),
\* cancels what was in flight and submits the item at the new cursor.
C8_PreviousRespeaks ==
  [][/\ (Previous /\ Len(allContent) > 0) =>
          /\ currentIndex' = Max(0, currentIndex - 1)
          /\ synthQueue' = <<Utterance(currentIndex', playbackSpeed)>>
     /\ (PePrevious /\ Len(peComments) > 0) =>
          /\ peCurrentIndex' = Max(0, peCurrentIndex - 1)
          /\ synthQueue' = <<Utterance(peCurrentIndex', pePlaybackSpeed)>>]_vars

\* previous() at cursor 0 cancelled item 0 and submitted it again
C8_Witness ==
  /\ driver = "content"
  /\ currentIndex = 0
  /\ synthQueue = <<Utterance(0, playbackSpeed)>>
  /\ stale = 1
  /\ timers = 0
  /\ isPlaying

LoadableQueues ==
  {BuildAllContent(t, b, ExtractedComments(n)) :
     t \in BOOLEAN, b \in BOOLEAN, n \in 0..MaxComments}

C10_LoadDoesNotPlay ==
  [][/\ ExtractComments =>
          /\ allContent' \in LoadableQueues
          /\ currentIndex' = 0
          /\ UNCHANGED <<synthQueue, timers, isPlaying>>
     /\ PeLoadComments =>
          /\ peCurrentIndex' = 0
          /\ UNCHANGED <<synthQueue, timers, peUtterance>>]_vars

\* a queue was loaded while item 1 of the previous queue was being spoken
C10_Witness ==
  /\ driver = "content"
  /\ synthQueue = <<Utterance(1, playbackSpeed)>>
  /\ currentIndex = 0
  /\ stale = 0
  /\ timers = 0
  /\ Len(allContent) = 1

\* C11: when the engine reports an error for the utterance being spoken the
\* sequencer is not playing, the cursor is unchanged and no utterance is
\* submitted or scheduled: the failed utterance leaves the engine and nothing
\* takes its place.
C11_ErrorStopsWithoutRetry ==
  [][/\ SpeechError =>
          /\ isPlaying' = FALSE
          /\ currentIndex' = currentIndex
          /\ synthQueue' = Tail(synthQueue)
          /\ timers' = timers
     /\ PeSpeechError =>
          /\ peCurrentIndex' = peCurrentIndex
          /\ synthQueue' = Tail(synthQueue)
          /\ timers' = timers]_vars

\* item 1 of three failed while being spoken: its highlight is still shown
C11_Witness ==
  /\ driver = "content"
  /\ Len(allContent) = 3
  /\ currentIndex = 1
  /\ ~isPlaying
  /\ ~isPaused
  /\ ~synthSpeaking
  /\ postHighlight \/ commentHighlight # 0
  /\ stale = 0
  /\ timers = 0

\* C12: for every item spoken, readContent first resolves the voice for the
\* item's index, then makes the highlight call for the item (the comment id
\* for a comment, the post for title and body), and only then submits the
\* utterance to the engine.
ItemHighlightCall(index) ==
  IF allContent[index + 1].type \in {"title", "body"}
  THEN HighlightPostCall
  ELSE HighlightCommentCall(allContent[index + 1].id)

C13_SetSpeedClampsAndApplies ==
  [][/\ \A rate \in Rates :
          /\ SetSpeed(rate) =>
               /\ playbackSpeed' = ClampSpeed(rate)
               /\ \A k \in 1..Len(synthQueue') :
                     synthQueue'[k].rate = ClampSpeed(rate)
          /\ PeSetSpeed(rate) =>
               /\ pePlaybackSpeed' = ClampSpeed(rate)
               /\ \A k \in 1..Len(synthQueue') :
                     synthQueue'[k].rate = ClampSpeed(rate)
     /\ Len(synthQueue') > Len(synthQueue) =>
          synthQueue'[Len(synthQueue')].rate =
            IF driver = "content" THEN playbackSpeed ELSE pePlaybackSpeed]_vars

\* a step of the run itself: it starts, or one of its waits is over
RunStep == xpPc' # xpPc \/ i' # i \/ iterations' # iterations

\* the controls the step leading to a batch wait has invoked
InvokedBatch == Batch(buttonsToClick', i', strategy')

\* a request starts a run: the step is taken with no run suspended and
\* clears the stop signal
StartStep == xpPc \in {"none", "returned"} /\ ~shouldStopExtraction'

\* C14: a run that finds the total already at or above maxTotal (maxTotal 0
\* included) returns at once: no control is invoked, no settle wait is
\* entered and the loop is not run.
C14_AtBudgetReturnsAtOnce ==
  [][(StartStep /\ docTotal' >= maxTotal') =>
       /\ xpPc' = "returned"
       /\ isExtracting' = FALSE
       /\ UNCHANGED <<buttonsToClick, i, iterations>>
       /\ extractionProgress' = docTotal']_vars

\* a request with maxTotal 0 found one comment and controls it never touched
C14_Witness ==
  /\ xpPc = "returned"
  /\ maxTotal = 0
  /\ docTotal = 1
  /\ extractionProgress = 1
  /\ iterations = 0
  /\ ~isExtracting

\* C15: every run terminates whatever the document does and whether or not
\* the stop signal is set: the loop body is entered only with fewer than 50
\* iterations counted, the count never passes 50, and a suspended run
\* eventually returns.
C15_RunTerminates ==
  /\ [](iterations <= MaxIterations)
  /\ [][(RunStep /\ xpPc' = "batchWait" /\ xpPc # "batchWait") =>
          iterations' < MaxIterations]_vars
  /\ (xpPc \in {"batchWait", "iterWait"}) ~> (xpPc = "returned")

\* the run was cut off by the iteration ceiling with the stop signal unset
C15_Witness ==
  /\ xpPc = "returned"
  /\ iterations = MaxIterations
  /\ ~shouldStopExtraction
  /\ docTotal < maxTotal

\* C16: once the stop signal has been sent during a run, that run invokes no
\* further batch: its batch wait is followed by the iteration wait, its
\* iteration wait by the return.
C16_StopEndsRun ==
  [][(stopRequested /\ xpPc \in {"batchWait", "iterWait"} /\ RunStep) =>
       /\ xpPc' # "batchWait"
       /\ (xpPc = "iterWait" => xpPc' = "returned")]_vars

\* the depth the document gives a control: its nearest ancestor comment's
\* depth plus one, 0 without an ancestor comment
DepthInDocument(b) == IF b.parent <= NoParent THEN 0 ELSE b.parent + 1

C18_RunOnlyAdds ==
  [][/\ docTotal' >= docTotal
     /\ docTopLevel' >= docTopLevel
     /\ (RunStep /\ xpPc' = "returned") => extractionProgress' = docTotal'
     /\ (RunStep /\ xpPc \in {"batchWait", "iterWait"}) =>
          extractionProgress' >= extractionProgress]_vars

\* a run has returned with more nodes in the document than its budget
C18_Witness ==
  /\ xpPc = "returned"
  /\ iterations > 0
  /\ docTotal > maxTotal
  /\ extractionProgress = docTotal

\* the rotation list R: the voices of the pool whose name is on the
\* allowlist, in pool order, when the allowlist is non-empty and names at
\* least one of them; otherwise the whole pool
RotationList ==
  LET restricted == SelectSeq(filteredVoices,
                              LAMBDA v : v \in selectedVoiceNames)
  IN IF selectedVoiceNames # {} /\ Len(restricted) > 0
     THEN restricted ELSE filteredVoices

\* C19: with rotation on and a non-empty pool the voice of item index is
\* R[index mod |R|]; with two or more voices in R the items i and i+1 get
\* different voices.
C19_RoundRobinOverAllowedVoices ==
  (useUniqueVoices /\ Len(filteredVoices) > 0) =>
    /\ \A index \in 0..MaxIndex :
         GetVoiceForIndex(index)
           = RotationList[(index % Len(RotationList)) + 1]
    /\ Len(RotationList) >= 2 =>
         \A index \in 0..(MaxIndex - 1) :
           GetVoiceForIndex(index) # GetVoiceForIndex(index + 1)

\* item 4 of a rotation over a pool of three voices without allowlist got
\* the second voice of the pool
C19_Witness ==
  /\ useUniqueVoices
  /\ Len(filteredVoices) = 3
  /\ selectedVoiceNames = {}
  /\ rcIndex = 4
  /\ rcVoice = filteredVoices[2]
  /\ GetVoiceForIndex(0) = filteredVoices[1]
  /\ GetVoiceForIndex(3) = filteredVoices[1]

\* C20: with an empty pool every item gets no voice; with rotation off every
\* item gets the first voice of the pool, whatever the allowlist holds.
C20_EmptyPoolAndNoRotation ==
  \A index \in 0..MaxIndex :
    /\ Len(filteredVoices) = 0 => GetVoiceForIndex(index) = NoVoice
    /\ (Len(filteredVoices) > 0 /\ ~useUniqueVoices) =>
         GetVoiceForIndex(index) = filteredVoices[1]

\* rotation is off, the first voice of the pool is not on the allowlist
\* although another voice of the pool is, and item 1 got the first voice
C20_Witness ==
  /\ ~useUniqueVoices
  /\ Len(filteredVoices) >= 2
  /\ filteredVoices[1] \notin selectedVoiceNames
  /\ filteredVoices[2] \in selectedVoiceNames
  /\ rcIndex = 1
  /\ rcVoice = filteredVoices[1]

\* the name, read without regard to case, has "bot" somewhere in it
HasBot(name) ==
  \E k \in 1..(Len(name) - 2) :
    /\ ToLowerCase(name)[k] = "b"
    /\ ToLowerCase(name)[k + 1] = "o"
    /\ ToLowerCase(name)[k + 2] = "t"

\* the name, read without regard to case, begins with "mod"
BeginsWithMod(name) ==
  /\ Len(name) >= 3
  /\ ToLowerCase(<<name[1], name[2], name[3]>>) = <<"m", "o", "d">>

\* C25: a name is filtered exactly when, read without regard to case, it is
\* on the denylist, has "bot" in it or begins with "mod"; no author is not
\* filtered; AutoModerator, SomeBot_99 and Moderator_Jane are filtered,
\* regular_user is not.
C25_AuthorFilter ==
  callResult.done =>
    /\ callResult.value
         <=> /\ callArg # NullAuthor
             /\ \/ ToLowerCase(callArg) \in FILTERED_AUTHORS
                \/ HasBot(callArg)
                \/ BeginsWithMod(callArg)
    /\ callArg \in {AutoModerator, SomeBot_99, Moderator_Jane}
         => callResult.value
    /\ callArg \in {regular_user, NullAuthor} => ~callResult.value

\* SomeBot_99, whose "Bot" is written with a capital, has been filtered
C25_Witness ==
  /\ callArg = SomeBot_99
  /\ callResult.done
  /\ callResult.value

\* C26: for every input array the output is in depth-first reading order:
\* it holds the comments of the input, begins at depth 0 and never goes
\* down by more than one level from one comment to the next.
C26_FlattenGivesReadingOrder ==
  callResult.done =>
    LET out == callResult.value IN
    /\ Len(out) = Len(callArg)
    /\ {out[k].id : k \in 1..Len(out)} = 1..Len(callArg)
    /\ \A k \in 1..Len(out) : out[k].depth = callArg[out[k].id]
    /\ Len(out) > 0 => out[1].depth = 0
    /\ \A k \in 2..Len(out) : out[k].depth <= out[k - 1].depth + 1

\* the sanitized title and body of the page are not empty
HasTitle == RemoveLinks(document.title) # <<>>
HasBody == RemoveLinks(document.body) # <<>>
PostItems == (IF HasTitle THEN 1 ELSE 0) + (IF HasBody THEN 1 ELSE 0)

\* C21: after a successful extractComments request the queue is the title
\* item if there is a title, then the body item if there is a body, then one
\* comment item per record in the order of the records; totalItems is the
\* count plus one for the title and one for the body.
C21_QueueIsTitleBodyComments ==
  lastResponse.kind = "success" =>
    /\ Len(allContent) = PostItems + Len(comments)
    /\ HasTitle => allContent[1].type = "title"
    /\ HasBody => allContent[PostItems].type = "body"
    /\ \A k \in 1..Len(comments) :
         allContent[PostItems + k] = [type |-> "comment", id |-> comments[k].id]
    /\ lastResponse.count = Len(comments)
    /\ lastResponse.totalItems = lastResponse.count + PostItems
    /\ lastResponse.hasTitle = HasTitle
    /\ lastResponse.hasBody = HasBody
    /\ currentIndex = 0

\* a page with title, body and two recorded comments has been extracted
C21_Witness ==
  /\ lastResponse.kind = "success"
  /\ HasTitle /\ HasBody
  /\ Len(comments) = 2
  /\ Len(allContent) = 4

\* the node a record was made from
NodeOf(record) == document.nodes[record.element]

\* C22: every record of an extraction pass comes from a node whose author is
\* not filtered and whose sanitized text is not empty, every such node has
\* its record, and the records stand in the order of their nodes.
C22_RecordsAreUnfilteredNonEmpty ==
  lastResponse.kind = "success" =>
    /\ \A k \in 1..Len(comments) :
         /\ comments[k].element \in 1..Len(document.nodes)
         /\ comments[k].author = NodeOf(comments[k]).author
         /\ ~ShouldFilterAuthor(comments[k].author)
         /\ comments[k].text # <<>>
         /\ comments[k].text = RemoveLinks(NodeOf(comments[k]).content)
    /\ \A k \in 2..Len(comments) :
         comments[k - 1].element < comments[k].element
    /\ \A n \in 1..Len(document.nodes) :
         (\E k \in 1..Len(comments) : comments[k].element = n)
           <=> /\ ~ShouldFilterAuthor(document.nodes[n].author)
               /\ RemoveLinks(document.nodes[n].content) # <<>>

\* of two nodes the first is by a filtered author or without text and the
\* second has been recorded
C22_Witness ==
  /\ lastResponse.kind = "success"
  /\ Len(document.nodes) = 2
  /\ Len(comments) = 1
  /\ comments[1].element = 2

\* the nodes of the page that survive the author filter and the sanitizer
Surviving ==
  {n \in 1..Len(document.nodes) :
     /\ ~ShouldFilterAuthor(document.nodes[n].author)
     /\ RemoveLinks(document.nodes[n].content) # <<>>}

\* C23: a request whose handler meets no exception is answered with
\* success = true and the number of surviving nodes as count, 0 when the
\* page has no comment node or none survives; a request whose handler meets
\* an exception is answered with success = false; every request is answered,
\* and answered once.
C23_EveryRequestAnswered ==
  /\ [][ExtractResume(FALSE) =>
         /\ lastResponse'.success
         /\ lastResponse'.count = Cardinality(Surviving)
         /\ Surviving = {} => lastResponse'.count = 0]_vars
  /\ [][ExtractResume(TRUE) =>
         /\ lastResponse'.kind = "error"
         /\ ~lastResponse'.success]_vars
  /\ [][/\ pendingRequests' < pendingRequests =>
            /\ pendingRequests' = pendingRequests - 1
            /\ responsesSent' = responsesSent + 1
        /\ responsesSent' # responsesSent =>
            /\ pendingRequests' = pendingRequests - 1
            /\ responsesSent' = responsesSent + 1]_vars
  /\ (pendingRequests > 0) ~> (pendingRequests = 0)

\* on a page whose two comment nodes do not survive, a first request was
\* answered with a queue of the title alone, and a second request, which
\* met an exception, with the error response
C23_Witness ==
  /\ Len(document.nodes) = 2
  /\ Surviving = {}
  /\ responsesSent = 2
  /\ pendingRequests = 0
  /\ lastResponse.kind = "error"
  /\ comments = <<>>
  /\ Len(allContent) = 1

\* nothing is in flight, nothing is highlighted, both transport flags are off
IdleAfterCleanup ==
  /\ cleanedUp
  /\ synthQueue = <<>>
  /\ ~postHighlight /\ commentHighlight = 0
  /\ ~isPlaying /\ ~isPaused

\* C24: cleanup() leaves the engine without an utterance in flight, the
\* highlight cleared and both transport flags false, and from then on the
\* sequencer stays so until a play, next or previous request.
C24_CleanupLeavesIdle ==
  /\ [][Cleanup => IdleAfterCleanup']_vars
  /\ [][(IdleAfterCleanup /\ ~(Play \/ NextItem \/ Previous))
          => IdleAfterCleanup']_vars

\* the first iteration of a run has looked at the page callArg with the
\* total below the budget
Looked == xpPc # "none" /\ callArg.total < maxTotal

\* the depth rule of the strategy alone
WithinDepth(d) ==
  IF strategy = "breadth" THEN d <= 2 /\ d <= targetDepth
  ELSE d < targetDepth

\* the top-level cap of the strategy
TopLevelCap ==
  IF strategy = "depth" THEN Min(10, maxTopLevel) ELSE maxTopLevel

\* the controls of the page the strategy admits, by the depth of the comment
\* they hang under
AdmittedControls ==
  {p \in callArg.controls :
     /\ WithinDepth(DepthInDocument([parent |-> p]))
     /\ DepthInDocument([parent |-> p]) = 0 => callArg.top < TopLevelCap}

DeeperEligible ==
  {p \in callArg.controls :
     /\ DepthInDocument([parent |-> p]) > 0
     /\ WithinDepth(DepthInDocument([parent |-> p]))}

\* the controls the iteration has selected, and those invoked at once
Selected == {buttonsToClick[k].parent : k \in 1..Len(buttonsToClick)}
FirstBatch == Batch(buttonsToClick, 0, strategy)

\* C27: under breadth and balanced, an iteration that finds the top-level
\* count at the cap ends the run without invoking a control when no
\* eligible control lies below the top level, and invokes such a control
\* when one does.
C27_CapEndsRunOnlyWithoutDeeper ==
  (Looked /\ strategy # "depth" /\ callArg.top >= maxTopLevel) =>
    /\ DeeperEligible = {} => xpPc = "returned" /\ buttonsToClick = <<>>
    /\ DeeperEligible # {} =>
         /\ xpPc = "batchWait"
         /\ \E k \in 1..Len(FirstBatch) :
              /\ FirstBatch[k].depth > 0
              /\ FirstBatch[k].parent \in DeeperEligible

\* at the top-level cap a control two levels down has been invoked although
\* a top-level control was on the page
C27_Witness ==
  /\ Looked
  /\ strategy = "balanced"
  /\ callArg.top >= maxTopLevel
  /\ NoParent \in callArg.controls
  /\ xpPc = "batchWait"
  /\ buttonsToClick[1].depth = 2

\* C28: an iteration that finds the top-level count at or above the cap of
\* the strategy selects no top-level control; the cap is maxTopLevel for
\* breadth and balanced and min(10, maxTopLevel) for depth.
C28_NoTopLevelControlAtCap ==
  (Looked /\ callArg.top >= TopLevelCap) =>
    \A k \in 1..Len(buttonsToClick) : buttonsToClick[k].depth # 0

\* the depth strategy with a top-level budget of 12 found ten top-level
\* comments and a top-level control, and selected deeper controls only
C28_Witness ==
  /\ Looked
  /\ strategy = "depth"
  /\ maxTopLevel = 12
  /\ callArg.top = 10
  /\ NoParent \in callArg.controls
  /\ xpPc = "batchWait"
  /\ Len(buttonsToClick) >= 1

\* C29: the selected controls are admitted, come before every admitted
\* control left out in the order of the strategy (shallow first for breadth
\* and balanced, deep first for depth), and stand in that order themselves.
C29_SelectedArePrefixInOrder ==
  Looked =>
    /\ Selected \subseteq AdmittedControls
    /\ \A k \in 1..Len(buttonsToClick) :
         buttonsToClick[k].depth = DepthInDocument(buttonsToClick[k])
    /\ \A a \in Selected, b \in AdmittedControls \ Selected :
         IF strategy = "depth"
         THEN DepthInDocument([parent |-> a]) >= DepthInDocument([parent |-> b])
         ELSE DepthInDocument([parent |-> a]) <= DepthInDocument([parent |-> b])
    /\ \A k \in 2..Len(buttonsToClick) :
         IF strategy = "depth"
         THEN buttonsToClick[k - 1].depth >= buttonsToClick[k].depth
         ELSE buttonsToClick[k - 1].depth <= buttonsToClick[k].depth

\* the depth strategy has selected the two deepest of three admitted
\* controls, the deeper one first
C29_Witness ==
  /\ Looked
  /\ strategy = "depth"
  /\ Cardinality(AdmittedControls) = 3
  /\ Len(buttonsToClick) = 2
  /\ buttonsToClick[1].depth = 2
  /\ buttonsToClick[2].depth = 1

\* C30: an iteration selects at most max(1, floor((maxTotal - total) / 7))
\* controls, and at most as many as are admitted.
C30_SelectionWithinBudget ==
  Looked =>
    /\ Len(buttonsToClick)
         <= Max(1, (maxTotal - callArg.total) \div 7)
    /\ Len(buttonsToClick) <= Cardinality(AdmittedControls)
    /\ Cardinality(Selected) = Len(buttonsToClick)

\* with a remaining budget of 1 one control of three admitted was selected
C30_Witness ==
  /\ Looked
  /\ maxTotal - callArg.total = 1
  /\ Cardinality(AdmittedControls) = 3
  /\ Len(buttonsToClick) = 1

\* the array of a result as an input: the depths, place by place
AsInput(out) == [k \in 1..Len(out) |-> out[k].depth]

\* the result of applying flattenComments to a result, each comment known by
\* its place in the first input
FlattenAgain(out) ==
  LET again == FlattenComments(AsInput(out))
  IN [k \in 1..Len(again) |->
        [id |-> out[again[k].id].id, depth |-> again[k].depth]]

BatchLimit == IF strategy = "breadth" THEN 3 ELSE 2

\* C31: the selected controls are invoked in consecutive batches of at most 3
\* (breadth) or 2 (depth, balanced), each followed by a settle wait; a batch
\* is invoked only when the total just counted is below maxTotal, and a
\* batch wait that ends with the total at or above maxTotal leaves the batch
\* loop with the remaining controls not invoked.
C31_BatchesWithinBudget ==
  /\ [][(RunStep /\ xpPc' = "batchWait") =>
          /\ Len(InvokedBatch) \in 1..BatchLimit'
          /\ docTotal' < maxTotal'
          /\ extractionProgress' = docTotal'
          /\ i' = IF xpPc = "batchWait"
                  THEN i + Len(Batch(buttonsToClick, i, strategy)) ELSE 0
          /\ xpPc = "batchWait" => UNCHANGED buttonsToClick]_vars
  /\ [][(RunStep /\ xpPc = "batchWait" /\ docTotal' >= maxTotal) =>
          xpPc' = "iterWait"]_vars

\* after a first batch of three controls under breadth the total was found
\* at the budget and the fourth selected control was left alone
C31_Witness ==
  /\ xpPc = "iterWait"
  /\ strategy = "breadth"
  /\ maxTotal = 30
  /\ docTotal = 30
  /\ callArg.total = 2
  /\ Cardinality({p \in callArg.controls :
                    Admits(strategy, targetDepth, maxTopLevel, callArg.top,
                           EffectiveDepth(p))}) = 4
  /\ ~shouldStopExtraction

\* the step submits an utterance: the engine queue ends in one it did not
\* hold at that place, or next/previous has cancelled and spoken
Submits ==
  /\ Len(synthQueue') > 0
  /\ \/ Len(synthQueue') > Len(synthQueue)
     \/ synthQueue' # SubSeq(synthQueue,
                             Len(synthQueue) - Len(synthQueue') + 1,
                             Len(synthQueue))
     \/ NextItem
     \/ Previous

\* C32: in every reachable state the cursor is at least 0 and at most
\* max(0, queue length - 1), and every utterance submitted is for an index
\* of the queue.
C32_CursorInRange ==
  /\ [](currentIndex \in 0..Max(0, Len(allContent) - 1))
  /\ [][Submits =>
          synthQueue'[Len(synthQueue')].idx \in 0..(Len(allContent') - 1)]_vars

\* after a URL change during playback: the queue is empty, the cursor is 0,
\* cancelled utterances may still call back and nothing is being spoken
C32_Witness ==
  /\ cleanedUp
  /\ allContent = <<>>
  /\ currentIndex = 0
  /\ timers = 0
  /\ stale > 0
  /\ ~synthSpeaking
  /\ ~isPlaying

\* C33: after stop() or cleanup(), also when issued in the 100 ms between a
\* natural completion and the scheduled start of the next item, no utterance
\* is submitted until a play, next or previous request.
C33_StopSilencesTimer ==
  [][(stopIssued /\ stopIssued') => ~Submits]_vars

\* the item at index idx is being spoken after the step: its utterance heads
\* the engine queue and the engine is not paused
SpokenNext(idx) ==
  /\ Len(synthQueue') > 0
  /\ synthQueue'[1].idx = idx
  /\ ~synthPaused'

\* C34: with an engine whose cancel() leaves its paused flag as it is, play()
\* after stop() on a non-empty queue ends with item 0 being spoken, also when
\* stop() was issued while paused, and next()/previous() issued while paused
\* end with the new item being spoken.
C34_SpokenAfterPausedStop ==
  [][cancelKeepsPaused =>
       /\ (Play /\ stopIssued /\ ~isPaused /\ ~synthSpeaking
                /\ currentIndex = 0 /\ Len(allContent) > 0) => SpokenNext(0)
       /\ (NextItem /\ synthPaused /\ currentIndex < Len(allContent) - 1) =>
            SpokenNext(currentIndex + 1)
       /\ (Previous /\ synthPaused /\ Len(allContent) > 0) =>
            SpokenNext(Max(0, currentIndex - 1))
       /\ (PePlay /\ stopIssued /\ ~synthSpeaking /\ peCurrentIndex = 0
                  /\ Len(peComments) > 0) => SpokenNext(0)
       /\ (PeNext /\ synthPaused /\ peCurrentIndex < Len(peComments) - 1) =>
            SpokenNext(peCurrentIndex + 1)
       /\ (PePrevious /\ synthPaused /\ Len(peComments) > 0) =>
            SpokenNext(Max(0, peCurrentIndex - 1))]_vars

\* the highlight shown after the step is that of the queue item at index idx
HighlightIsFor(idx) ==
  LET item == allContent'[idx + 1] IN
  IF item.type = "comment"
  THEN commentHighlight' = item.id /\ ~postHighlight'
  ELSE postHighlight' /\ commentHighlight' = 0

\* C35: at most one element, a comment node or the post, carries the active
\* highlight; when an utterance is submitted the highlighted element is the
\* one of its item; and previous() from a comment item to a title or body
\* item leaves no comment highlighted.
C35_OneActiveHighlight ==
  /\ [](~(postHighlight /\ commentHighlight # 0))
  /\ [][(driver = "content" /\ Submits) =>
          HighlightIsFor(synthQueue'[Len(synthQueue')].idx)]_vars
  /\ [][(Previous /\ currentIndex > 0
           /\ allContent[currentIndex + 1].type = "comment"
           /\ allContent[currentIndex].type # "comment") =>
          commentHighlight' = 0]_vars

\* C36: isExtracting is true in every state in which an expansion run is in
\* progress, also when a later request arrives while an earlier run is
\* suspended at a settle wait, and a stop signal set during a run stays set
\* until that run has looked at it.
C36_ExtractingWhileAnyRun ==
  /\ []((xpPc \in {"batchWait", "iterWait"} \/ otherRuns > 0) =>
          isExtracting)
  /\ [][(stopRequested /\ shouldStopExtraction
           /\ xpPc \in {"batchWait", "iterWait"} /\ ~RunStep) =>
          shouldStopExtraction']_vars

\* C37: when a run on its own returns, by whichever way it ends, isExtracting
\* is false and extractionProgress is the number of comment nodes the
\* document has at that moment; both stay so until the next request.
C37_ReturnClearsFlagAndReportsTotal ==
  /\ [][(RunStep /\ xpPc' = "returned") =>
          /\ isExtracting' = FALSE
          /\ extractionProgress' = docTotal']_vars
  /\ [](xpPc = "returned" =>
          ~isExtracting /\ extractionProgress = docTotal)

\* a run cancelled below its budget and below the iteration ceiling has
\* returned
C37_Witness ==
  /\ xpPc = "returned"
  /\ stopRequested
  /\ shouldStopExtraction
  /\ docTotal < maxTotal
  /\ docTotal > 0
  /\ iterations \in 1..(MaxIterations - 1)
  /\ ~isExtracting
  /\ extractionProgress = docTotal

\* a pass of the loop begins: the run starts or its iteration wait is over
LoopTopStep == RunStep /\ xpPc # "batchWait"

\* C38: a pass of the loop that finds the total below maxTotal and at least
\* one admitted control, with the stop signal unset and fewer than 50
\* iterations counted, invokes at least one control before it waits; and the
\* iteration wait is entered only after a batch has been invoked.
C38_IterationInvokesControl ==
  /\ [][(LoopTopStep /\ ~shouldStopExtraction'
           /\ iterations' < MaxIterations
           /\ callArg'.total < maxTotal'
           /\ AdmittedControls' # {}) =>
          /\ xpPc' = "batchWait"
          /\ Len(InvokedBatch) >= 1]_vars
  /\ [][(RunStep /\ xpPc' = "batchWait") => Len(InvokedBatch) >= 1]_vars
  /\ [][(RunStep /\ xpPc' = "iterWait") => xpPc = "batchWait"]_vars

\* the third pass of a run has found an admitted control and invoked it
C38_Witness ==
  /\ xpPc = "batchWait"
  /\ iterations = 2
  /\ i = 0
  /\ AdmittedControls # {}
  /\ Len(buttonsToClick) >= 1
  /\ ~shouldStopExtraction

\* getState: the state reported is neither playing nor paused
ReportedIdle == ~synthSpeaking /\ ~synthPaused

\* C39: play(), next() and previous() called on an empty queue submit no
\* utterance and leave the cursor at 0, and when the state reported is Idle
\* it stays Idle, for the content script and for PlaybackEngine.
C39_EmptyQueueRequestsDoNothing ==
  [][/\ (/\ Play \/ NextItem \/ Previous
         /\ Len(allContent) = 0)
        => /\ ~Submits
           /\ currentIndex' = 0
           /\ ReportedIdle => ReportedIdle'
     /\ (/\ PePlay \/ PeNext \/ PePrevious
         /\ Len(peComments) = 0)
        => /\ ~Submits
           /\ peCurrentIndex' = 0
           /\ ReportedIdle => ReportedIdle']_vars

\* PlaybackEngine holds an empty queue loaded after a stop, a request to
\* play, go forward or go back has followed, and nothing is spoken
C39_Witness ==
  /\ driver = "engine"
  /\ peComments = <<>>
  /\ peCurrentIndex = 0
  /\ stale > 0
  /\ ~stopIssued
  /\ ReportedIdle
  /\ timers = 0

====
